---- MODULE Spec2Model ----
(***************************************************************************)
(* A model of pino-cloud-logging: the LoggingCommon engine (writeLog,      *)
(* writeRequestLog and the pure helpers they call), the remote / stdout    *)
(* sink it writes to, the pino transport loop that feeds it, the trace      *)
(* header parser and the Express middleware that correlates requests.      *)
(*                                                                         *)
(* A JavaScript object is a function whose DOMAIN is the set of its        *)
(* defined keys: an absent (undefined) property is a key outside DOMAIN.   *)
(***************************************************************************)
EXTENDS Integers, Sequences, FiniteSets, TLC

VARIABLES
    loggingCommon,       \* the fields of the LoggingCommon instance
    google_trace_agent,  \* globalThis._google_trace_agent
    calls,               \* engine calls in progress or finished: id -> call
    writes,              \* the sink's log: every write issued, in issue order
    source,              \* the transport's record stream
    transport,           \* the transport loop's position
    stderr,              \* console.error reports: [id, err]
    appCalls,            \* calls a direct caller of the engine has made
    process_env,         \* process.env: the environment variables that are set
    middleware,          \* the closure of makeMiddleware, NULL when none is made
    requests,            \* the requests the middleware has handled: id -> request
    traceHeaderCall,     \* a direct call of parseTraceHeader, NULL when none
    engineOptions,       \* the options a direct caller passed to new
                         \* LoggingCommon, NULL when the middleware made it
    spanCall,            \* the last direct call of getCurrentSpanFromAgent
    projectIdCalls       \* the getProjectId calls of a direct caller, in call order

\* the variables of the middleware and of the header parser's caller
middlewareVars == <<process_env, middleware, requests, traceHeaderCall>>

\* the variables of the direct callers of the constructor, of getProjectId
\* and of getCurrentSpanFromAgent
callerVars == <<engineOptions, spanCall, projectIdCalls>>

vars == <<loggingCommon, google_trace_agent, calls, writes, source, transport,
          stderr, appCalls, middlewareVars, callerVars>>

(***************************************************************************)
(* Bounds of the model.                                                    *)
(***************************************************************************)
MaxStream == 3
MaxAppCalls == 1
LevelRange == 75
MaxRequests == 2
MaxProjectIdCalls == 2
MaxSpanCalls == 2

(***************************************************************************)
(* JavaScript objects.                                                     *)
(***************************************************************************)
Empty == <<>>

Has(o, k) == k \in DOMAIN o

\* o[k] = v
Assign(o, k, v) == [x \in DOMAIN o \cup {k} |-> IF x = k THEN v ELSE o[x]]

\* { ...a, ...b }
Spread(a, b) == b @@ a

Pick(o, keys) == [x \in DOMAIN o \cap keys |-> o[x]]

TruthyStr(o, k) == Has(o, k) /\ o[k] # ""

TruthyNum(o, k) == Has(o, k) /\ o[k] # 0

NULL == [isNull |-> TRUE]

(***************************************************************************)
(* types.ts                                                                *)
(***************************************************************************)
LOGGING_TRACE_KEY == "logging.googleapis.com/trace"

LOGGING_SPAN_KEY == "logging.googleapis.com/spanId"

LOGGING_SAMPLED_KEY == "logging.googleapis.com/trace_sampled"

DEFAULT_LOG_NAME == "pino_log"

DEFAULT_MAX_ENTRY_SIZE == 250000

REPORTED_ERROR_EVENT ==
    "type.googleapis.com/google.devtools.clouderrorreporting.v1beta1.ReportedErrorEvent"

(***************************************************************************)
(* trace.ts: getCurrentTraceFromAgent.  An agent that is not installed is  *)
(* the empty object; a null context id or project id is an absent key.     *)
(***************************************************************************)
getCurrentTraceFromAgent(agent) ==
    IF ~Has(agent, "installed") THEN NULL
    ELSE IF ~TruthyStr(agent, "contextId") \/ ~TruthyStr(agent, "writerProjectId")
         THEN NULL
         ELSE [value |-> "projects/" \o agent.writerProjectId \o "/traces/"
                         \o agent.contextId]

(***************************************************************************)
(* trace.ts: parseTraceHeader.  A header is the sequence of its            *)
(* characters; Join turns a sequence of characters into the string.        *)
(***************************************************************************)
RECURSIVE Join(_)
Join(chars) == IF Len(chars) = 0 THEN "" ELSE Head(chars) \o Join(Tail(chars))

Drop(s, n) == SubSeq(s, n + 1, Len(s))

\* \d
DecimalDigits == {"0", "1", "2", "3", "4", "5", "6", "7", "8", "9"}

\* [a-f0-9] under the ignore-case flag
HexDigits ==
    DecimalDigits \cup {"a", "b", "c", "d", "e", "f", "A", "B", "C", "D", "E", "F"}

\* the literal o of ;o= under the ignore-case flag
FlagMarkers == {"o", "O"}

\* a greedy class+ at the start of s: the length of the longest run
RECURSIVE run(_, _)
run(s, class) ==
    IF Len(s) > 0 /\ Head(s) \in class THEN 1 + run(Tail(s), class) ELSE 0

\* mutant: the pattern has no $ anchor, text after the match is ignored
matchTraceHeaderNoAnchor(header) ==
    LET t == run(header, HexDigits)
        afterTrace == Drop(header, t)
        s == IF Len(afterTrace) > 0 /\ Head(afterTrace) = "/"
             THEN run(Tail(afterTrace), DecimalDigits) ELSE 0
        afterSpan == IF s > 0 THEN Drop(afterTrace, s + 1) ELSE afterTrace
        flag == /\ Len(afterSpan) >= 4
                /\ afterSpan[1] = ";"
                /\ afterSpan[2] \in FlagMarkers
                /\ afterSpan[3] = "="
                /\ afterSpan[4] \in DecimalDigits
    IN  IF t > 0
        THEN Spread(
                 Spread([traceId |-> SubSeq(header, 1, t)],
                        IF s > 0 THEN [spanId |-> SubSeq(afterTrace, 2, s + 1)]
                        ELSE Empty),
                 IF flag THEN [traceSampled |-> afterSpan[4]] ELSE Empty)
        ELSE NULL

\* header.match(/^([a-f0-9]+)(?:\/(\d+))?(?:;o=(\d))?$/i): NULL, or the groups
\* of the match, a group that took no part being an absent key.  No character
\* of a class is a separator, so the greedy runs are the only way to match.
matchTraceHeader(header) ==
    LET t == run(header, HexDigits)
        afterTrace == Drop(header, t)
        s == IF Len(afterTrace) > 0 /\ Head(afterTrace) = "/"
             THEN run(Tail(afterTrace), DecimalDigits) ELSE 0
        afterSpan == IF s > 0 THEN Drop(afterTrace, s + 1) ELSE afterTrace
        flag == /\ Len(afterSpan) >= 4
                /\ afterSpan[1] = ";"
                /\ afterSpan[2] \in FlagMarkers
                /\ afterSpan[3] = "="
                /\ afterSpan[4] \in DecimalDigits
        rest == IF flag THEN Drop(afterSpan, 4) ELSE afterSpan
    IN  IF t > 0 /\ Len(rest) = 0
        THEN Spread(
                 Spread([traceId |-> SubSeq(header, 1, t)],
                        IF s > 0 THEN [spanId |-> SubSeq(afterTrace, 2, s + 1)]
                        ELSE Empty),
                 IF flag THEN [traceSampled |-> afterSpan[4]] ELSE Empty)
        ELSE NULL

\* lines 97-101: the result before anything is filled in
noTraceResult == [trace |-> NULL, spanId |-> NULL, sampled |-> FALSE]

\* mutant: sampled is set whenever the header carries a flag
parseTraceHeaderAnyFlag(header, projectId) ==
    IF Len(header) = 0 \/ projectId = ""
    THEN noTraceResult
    ELSE LET match == matchTraceHeader(header)
         IN  IF match = NULL
             THEN noTraceResult
             ELSE [trace |->
                      [value |-> "projects/" \o projectId \o "/traces/"
                                 \o Join(match.traceId)],
                   spanId |->
                      IF Has(match, "spanId")
                      THEN [value |-> Join(match.spanId)] ELSE NULL,
                   sampled |-> Has(match, "traceSampled")]

\* a string or null of the result is NULL or [value |-> the string]
parseTraceHeader(header, projectId) ==
    IF Len(header) = 0 \/ projectId = ""
    THEN noTraceResult
    ELSE LET match == matchTraceHeader(header)
         IN  IF match = NULL
             THEN noTraceResult
             ELSE [trace |->
                      [value |-> "projects/" \o projectId \o "/traces/"
                                 \o Join(match.traceId)],
                   spanId |->
                      IF Has(match, "spanId")
                      THEN [value |-> Join(match.spanId)] ELSE NULL,
                   sampled |->
                      Has(match, "traceSampled") /\ match.traceSampled = "1"]

(***************************************************************************)
(* trace.ts: getCurrentSpanFromAgent.  The agent's active root span is the *)
(* key rootSpan, absent when getCurrentRootSpan() returns null; its trace  *)
(* context is the sequence of its characters.                              *)
(***************************************************************************)
\* String.prototype.split on a one-character separator
RECURSIVE split(_, _)
split(s, separator) ==
    LET at == {i \in 1 .. Len(s) : s[i] = separator}
    IN  IF at = {} THEN <<s>>
        ELSE LET first == CHOOSE i \in at : \A j \in at : i <= j
             IN  <<SubSeq(s, 1, first - 1)>> \o split(Drop(s, first), separator)

\* mutant: the options suffix is left on the span part
getCurrentSpanFromAgentKeepSuffix(agent) ==
    IF ~Has(agent, "installed") THEN NULL
    ELSE IF ~Has(agent, "rootSpan") THEN NULL
    ELSE LET traceContext == agent.rootSpan.traceContext
         IN  IF Len(traceContext) = 0 THEN NULL
             ELSE LET parts == split(traceContext, "/")
                  IN  IF Len(parts) < 2 THEN NULL
                      ELSE LET spanId == parts[2]
                           IN  IF Len(spanId) = 0 THEN NULL
                               ELSE [value |-> Join(spanId)]

getCurrentSpanFromAgent(agent) ==
    IF ~Has(agent, "installed") THEN NULL
    ELSE IF ~Has(agent, "rootSpan") THEN NULL
    ELSE LET traceContext == agent.rootSpan.traceContext
         IN  IF Len(traceContext) = 0 THEN NULL
             ELSE LET parts == split(traceContext, "/")
                  IN  IF Len(parts) < 2 THEN NULL
                      ELSE LET spanPart == parts[2]
                               spanId == split(spanPart, ";")[1]
                           IN  IF Len(spanId) = 0 THEN NULL
                               ELSE [value |-> Join(spanId)]

(***************************************************************************)
(* LoggingCommon: the constructor.                                         *)
(***************************************************************************)
LoggingCommon(options) ==
    LET redirectToStdout ==
            IF Has(options, "redirectToStdout") THEN options.redirectToStdout
            ELSE FALSE
        maxEntrySize ==
            IF Has(options, "maxEntrySize") THEN options.maxEntrySize
            ELSE DEFAULT_MAX_ENTRY_SIZE
        logName ==
            IF Has(options, "logName") THEN options.logName ELSE DEFAULT_LOG_NAME
    IN  Spread(
            Pick(options, {"projectId", "serviceContext", "labels", "prefix",
                           "defaultCallback"}),
            [redirectToStdout |-> redirectToStdout,
             useMessageField |->
                 IF Has(options, "useMessageField") THEN options.useMessageField
                 ELSE TRUE,
             maxEntrySize |-> maxEntrySize,
             logging |->
                 Spread(Pick(options, {"projectId"}),
                        [auth |-> [getProjectIdCalls |-> 0]]),
             cloudLog |->
                 IF redirectToStdout
                 THEN [kind |-> "LogSync", name |-> logName]
                 ELSE [kind |-> "Log", name |-> logName,
                       removeCircular |-> TRUE, maxEntrySize |-> maxEntrySize]])

(***************************************************************************)
(* LoggingCommon: the pure helpers of writeLog.                            *)
(***************************************************************************)
\* mutant: the INFO threshold is exclusive
mapLevelExclusive(level) ==
    IF level >= 60 THEN "CRITICAL"
    ELSE IF level >= 50 THEN "ERROR"
    ELSE IF level >= 40 THEN "WARNING"
    ELSE IF level > 30 THEN "INFO"
    ELSE "DEBUG"

mapLevel(level) ==
    IF level >= 60 THEN "CRITICAL"
    ELSE IF level >= 50 THEN "ERROR"
    ELSE IF level >= 40 THEN "WARNING"
    ELSE IF level >= 30 THEN "INFO"
    ELSE "DEBUG"

\* logObject.err?.stack
errStack(logObject) ==
    Has(logObject, "err") /\ TruthyStr(logObject.err, "stack")

\* mutant: the stack is appended after a newline even to an empty message
formatMessageAlwaysNewline(this, logObject) ==
    LET msg == IF Has(logObject, "msg") THEN logObject.msg ELSE ""
        prefixed ==
            IF TruthyStr(this, "prefix")
            THEN "[" \o this.prefix \o "] " \o msg
            ELSE msg
    IN  IF errStack(logObject)
        THEN prefixed \o "\n" \o logObject.err.stack
        ELSE prefixed

\* mutant: the prefix is put in front of non-empty messages only
formatMessagePrefixNonEmpty(this, logObject) ==
    LET msg == IF Has(logObject, "msg") THEN logObject.msg ELSE ""
        prefixed ==
            IF TruthyStr(this, "prefix") /\ msg # ""
            THEN "[" \o this.prefix \o "] " \o msg
            ELSE msg
    IN  IF errStack(logObject)
        THEN IF prefixed # ""
             THEN prefixed \o "\n" \o logObject.err.stack
             ELSE logObject.err.stack
        ELSE prefixed

formatMessage(this, logObject) ==
    LET msg == IF Has(logObject, "msg") THEN logObject.msg ELSE ""
        prefixed ==
            IF TruthyStr(this, "prefix")
            THEN "[" \o this.prefix \o "] " \o msg
            ELSE msg
    IN  IF errStack(logObject)
        THEN IF prefixed # ""
             THEN prefixed \o "\n" \o logObject.err.stack
             ELSE logObject.err.stack
        ELSE prefixed

\* mutant: the agent's trace is taken first, the record's only without it
extractTraceInfoAgentFirst(agent, logObject) ==
    LET fromRecord ==
            Spread(
                Spread(
                    IF TruthyStr(logObject, LOGGING_TRACE_KEY)
                    THEN [trace |-> logObject[LOGGING_TRACE_KEY]] ELSE Empty,
                    IF TruthyStr(logObject, LOGGING_SPAN_KEY)
                    THEN [spanId |-> logObject[LOGGING_SPAN_KEY]] ELSE Empty),
                IF Has(logObject, LOGGING_SAMPLED_KEY)
                THEN [traceSampled |-> logObject[LOGGING_SAMPLED_KEY]] ELSE Empty)
        agentTrace == getCurrentTraceFromAgent(agent)
    IN  IF agentTrace # NULL
        THEN Assign(fromRecord, "trace", agentTrace.value)
        ELSE fromRecord

extractTraceInfo(agent, logObject) ==
    LET fromRecord ==
            Spread(
                Spread(
                    IF TruthyStr(logObject, LOGGING_TRACE_KEY)
                    THEN [trace |-> logObject[LOGGING_TRACE_KEY]] ELSE Empty,
                    IF TruthyStr(logObject, LOGGING_SPAN_KEY)
                    THEN [spanId |-> logObject[LOGGING_SPAN_KEY]] ELSE Empty),
                IF Has(logObject, LOGGING_SAMPLED_KEY)
                THEN [traceSampled |-> logObject[LOGGING_SAMPLED_KEY]] ELSE Empty)
        agentTrace == getCurrentTraceFromAgent(agent)
    IN  IF ~Has(fromRecord, "trace") /\ agentTrace # NULL
        THEN Assign(fromRecord, "trace", agentTrace.value)
        ELSE fromRecord

\* mutant: labels is missing from the excluded keys
excludeKeysNoLabels ==
    {"level", "time", "msg", "pid", "hostname", "err", LOGGING_TRACE_KEY,
     LOGGING_SPAN_KEY, LOGGING_SAMPLED_KEY, "httpRequest"}

excludeKeys ==
    {"level", "time", "msg", "pid", "hostname", "err", LOGGING_TRACE_KEY,
     LOGGING_SPAN_KEY, LOGGING_SAMPLED_KEY, "httpRequest", "labels"}

buildMetadata(logObject) ==
    LET copied == [k \in DOMAIN logObject \ excludeKeys |-> logObject[k]]
        withError ==
            IF Has(logObject, "err")
            THEN Assign(copied, "error", Pick(logObject.err, {"type", "message"}))
            ELSE copied
        withPid ==
            IF TruthyNum(logObject, "pid")
            THEN Assign(withError, "pid", logObject.pid)
            ELSE withError
    IN  IF TruthyStr(logObject, "hostname")
        THEN Assign(withPid, "hostname", logObject.hostname)
        ELSE withPid

\* mutant: the message is written whatever the message-field toggle says
entryDataIgnoringToggle(this, logObject) ==
    LET metadata == buildMetadata(logObject)
        message == formatMessage(this, logObject)
    IN  IF message # ""
        THEN Assign(metadata, "message", message)
        ELSE metadata

\* writeLog, lines 414-421: the entry data before error reporting is added
entryData(this, logObject) ==
    LET metadata == buildMetadata(logObject)
        message == formatMessage(this, logObject)
    IN  IF this.useMessageField /\ message # ""
        THEN Assign(metadata, "message", message)
        ELSE metadata

\* mutant: the spread is the other way round, the configured label wins
mergedLabelsConfiguredWins(this, logObject) ==
    Spread(IF Has(logObject, "labels") THEN logObject.labels ELSE Empty,
           IF Has(this, "labels") THEN this.labels ELSE Empty)

\* writeLog, lines 423-427
mergedLabels(this, logObject) ==
    Spread(IF Has(this, "labels") THEN this.labels ELSE Empty,
           IF Has(logObject, "labels") THEN logObject.labels ELSE Empty)

\* writeLog, lines 429-438; new Date(ms) is the instant ms after the epoch
entryMetadata(this, agent, logObject) ==
    LET labels == mergedLabels(this, logObject)
        traceInfo == extractTraceInfo(agent, logObject)
    IN  Spread(
            Spread(
                [severity |-> mapLevel(logObject.level),
                 timestamp |-> [epochMs |-> logObject.time]],
                IF DOMAIN labels # {} THEN [labels |-> labels] ELSE Empty),
            Spread(traceInfo, Pick(logObject, {"httpRequest"})))

\* mutant: the error's stack is not looked at
errorReportingAnyError(this, severity, logObject, data) ==
    IF /\ Has(this, "serviceContext")
       /\ severity \in {"ERROR", "CRITICAL"}
    THEN Assign(Assign(data, "serviceContext", this.serviceContext),
                "@type", REPORTED_ERROR_EVENT)
    ELSE data

\* writeLog, lines 440-450: the service context for Error Reporting
errorReporting(this, severity, logObject, data) ==
    IF /\ Has(this, "serviceContext")
       /\ severity \in {"ERROR", "CRITICAL"}
       /\ errStack(logObject)
    THEN Assign(Assign(data, "serviceContext", this.serviceContext),
                "@type", REPORTED_ERROR_EVENT)
    ELSE data

\* writeLog, lines 409-452: this.cloudLog.entry(entryMetadata, entryData)
writeLogEntry(this, agent, logObject) ==
    [metadata |-> entryMetadata(this, agent, logObject),
     data |-> errorReporting(this, mapLevel(logObject.level), logObject,
                             entryData(this, logObject))]

(***************************************************************************)
(* Callbacks.  A callback is a function of the caller: it returns, or it   *)
(* throws on the kinds of argument in throwsOn.  An event of a call is a   *)
(* record [ev, who, arg].                                                  *)
(***************************************************************************)
CallbackError == [isError |-> TRUE, message |-> "callback threw"]

Ev(ev, who, arg) == [ev |-> ev, who |-> who, arg |-> arg]

argKind(arg) == IF arg = NULL THEN "null" ELSE "error"

Throws(cb, arg) == argKind(arg) \in cb.throwsOn

\* if (callback) callback(arg); if (this.defaultCallback) this.defaultCallback(arg)
callCallbacks(this, call, arg) ==
    LET threw1 == Has(call, "callback") /\ Throws(call.callback, arg)
        reach2 == ~threw1 /\ Has(this, "defaultCallback")
    IN  [events |->
            (IF Has(call, "callback")
             THEN <<Ev("invoke", "callback", arg)>> ELSE <<>>)
            \o (IF reach2
                THEN <<Ev("invoke", "defaultCallback", arg)>> ELSE <<>>),
         threw |-> threw1 \/ (reach2 /\ Throws(this.defaultCallback, arg))]

\* err instanceof Error ? err : new Error(String(err))
toError(err) ==
    IF err.isError THEN err ELSE [isError |-> TRUE, message |-> err.value]

\* writeLog, lines 471-482: the catch block
writeLogCatch(this, call, err) ==
    LET error == toError(err)
        cbs == callCallbacks(this, call, error)
    IN  [events |-> cbs.events,
         result |-> "threw",
         thrown |-> IF cbs.threw THEN CallbackError ELSE error]

\* writeLog, lines 455-483, from the moment the sink's write has settled:
\* settled is NULL when the write returned / resolved, else the rejection
writeLogSettled(this, call, settled) ==
    IF settled = NULL
    THEN LET cbs == callCallbacks(this, call, NULL)
         IN  IF cbs.threw
             THEN LET c == writeLogCatch(this, call, CallbackError)
                  IN  [c EXCEPT !.events = cbs.events \o c.events]
             ELSE [events |-> cbs.events, result |-> "returned", thrown |-> NULL]
    ELSE writeLogCatch(this, call, settled)

\* writeRequestLog, lines 511-515, once the write has settled: no try / catch
writeRequestLogSettled(this, call, settled) ==
    IF settled = NULL
    THEN [events |-> <<>>, result |-> "returned", thrown |-> NULL]
    ELSE [events |-> <<>>, result |-> "threw", thrown |-> settled]

\* writeRequestLog, lines 495-509
writeRequestLogEntry(this, args) ==
    LET latencyMs == IF Has(args, "latencyMs") THEN args.latencyMs ELSE 0
        httpRequest ==
            IF latencyMs # 0
            THEN Assign(args.httpRequest, "latency",
                        [seconds |-> latencyMs \div 1000,
                         nanos |-> (latencyMs % 1000) * 1000000])
            ELSE [k \in DOMAIN args.httpRequest \ {"latency"} |->
                      args.httpRequest[k]]
    IN  [metadata |->
            Spread(
                Spread([severity |-> "INFO", httpRequest |-> httpRequest],
                       Pick(args, {"trace", "spanId", "traceSampled"})),
                Pick(this, {"labels"})),
         data |-> Empty]

(***************************************************************************)
(* The sink (Log.write / LogSync.write) and the calls into the engine.     *)
(* A call is [op, pc, entry, events, result, thrown] with the arguments it *)
(* was given; pc is "awaiting" while the remote write is in flight.        *)
(***************************************************************************)
SinkErrors ==
    {[isError |-> TRUE, message |-> "write rejected"],
     [isError |-> FALSE, value |-> "quota exceeded"]}

SinkOutcomes == {NULL} \cup SinkErrors

settledCall(this, call, settled) ==
    LET r == IF call.op = "writeLog"
             THEN writeLogSettled(this, call, settled)
             ELSE writeRequestLogSettled(this, call, settled)
    IN  [call EXCEPT
            !.pc = "done",
            !.events = @ \o <<Ev("settled", "sink", settled)>> \o r.events,
            !.result = r.result,
            !.thrown = r.thrown]

writeStatus(settled) == IF settled = NULL THEN "delivered" ELSE "rejected"

\* mutant: a write that fails at once is issued a second time
IssueWriteRetry(id, args, entry, syncOutcome) ==
    LET call == Spread(args,
                       [pc |-> "awaiting", entry |-> entry,
                        events |-> <<Ev("write", "sink", NULL)>>,
                        result |-> "pending", thrown |-> NULL])
        written == [id |-> id, sink |-> loggingCommon.cloudLog.kind,
                    status |-> writeStatus(syncOutcome)]
    IN  IF loggingCommon.redirectToStdout
        THEN /\ calls' = (id :> settledCall(loggingCommon, call, syncOutcome))
                         @@ calls
             /\ writes' = IF syncOutcome = NULL
                          THEN Append(writes, written)
                          ELSE Append(Append(writes, written), written)
        ELSE /\ calls' = (id :> call) @@ calls
             /\ writes' = Append(writes,
                                 [id |-> id, sink |-> loggingCommon.cloudLog.kind,
                                  status |-> "inflight"])

\* the write of lines 456-462 / 511-515: LogSync.write returns or throws at
\* once (syncOutcome); Log.write leaves the call suspended on its promise.
\* The sink's log keeps the kind of this.cloudLog, the object written to
IssueWrite(id, args, entry, syncOutcome) ==
    LET call == Spread(args,
                       [pc |-> "awaiting", entry |-> entry,
                        events |-> <<Ev("write", "sink", NULL)>>,
                        result |-> "pending", thrown |-> NULL])
    IN  IF loggingCommon.redirectToStdout
        THEN /\ calls' = (id :> settledCall(loggingCommon, call, syncOutcome))
                         @@ calls
             /\ writes' = Append(writes,
                                 [id |-> id, sink |-> loggingCommon.cloudLog.kind,
                                  status |-> writeStatus(syncOutcome)])
        ELSE /\ calls' = (id :> call) @@ calls
             /\ writes' = Append(writes,
                                 [id |-> id, sink |-> loggingCommon.cloudLog.kind,
                                  status |-> "inflight"])

\* the promise of Log.write settles: the suspended call runs to its end
SinkSettle(id, settled) ==
    /\ id \in DOMAIN calls
    /\ calls[id].pc = "awaiting"
    /\ calls' = [calls EXCEPT ![id] = settledCall(loggingCommon, @, settled)]
    /\ writes' = [n \in DOMAIN writes |->
                     IF writes[n].id = id /\ writes[n].status = "inflight"
                     THEN [writes[n] EXCEPT !.status = writeStatus(settled)]
                     ELSE writes[n]]
    /\ UNCHANGED <<middlewareVars, callerVars>>
    /\ UNCHANGED <<loggingCommon, google_trace_agent, source, transport, stderr,
                   appCalls>>

SinkResolve == \E id \in DOMAIN calls : SinkSettle(id, NULL)

SinkReject == \E id \in DOMAIN calls : \E err \in SinkErrors : SinkSettle(id, err)

dropCall(id) == [c \in DOMAIN calls \ {id} |-> calls[c]]

(***************************************************************************)
(* transport.ts: createTransport's stream loop.                            *)
(***************************************************************************)
\* mutant: writeLog is called without await, the loop pulls on at once
transportNoAwait(i) == [pc |-> "pull", i |-> i + 1]

\* line 34: await loggingCommon.writeLog(logObject)
transportAwait(i) == [pc |-> "await", i |-> i]

\* mutant: no try / catch around writeLog, a failure ends the loop
transportNoCatch(i, call, log) ==
    [transport |-> IF call.result = "threw"
                   THEN [pc |-> "failed", i |-> i]
                   ELSE [pc |-> "pull", i |-> i + 1],
     stderr |-> log]

\* lines 35-39: the catch reports the error and the loop goes on
transportCatch(i, call, log) ==
    [transport |-> [pc |-> "pull", i |-> i + 1],
     stderr |-> IF call.result = "threw"
                THEN Append(log, [id |-> i, err |-> call.thrown])
                ELSE log]

TransportPull ==
    /\ transport.pc = "pull"
    /\ transport.i <= Len(source)
    /\ \E syncOutcome \in SinkOutcomes :
          IssueWrite(transport.i,
                     [op |-> "writeLog", logObject |-> source[transport.i]],
                     writeLogEntry(loggingCommon, google_trace_agent,
                                   source[transport.i]),
                     syncOutcome)
    /\ transport' = transportAwait(transport.i)
    /\ UNCHANGED <<middlewareVars, callerVars>>
    /\ UNCHANGED <<loggingCommon, google_trace_agent, source, stderr, appCalls>>

TransportResume ==
    /\ transport.pc = "await"
    /\ transport.i \in DOMAIN calls
    /\ calls[transport.i].pc = "done"
    /\ LET next == transportCatch(transport.i, calls[transport.i], stderr)
       IN  /\ transport' = next.transport
           /\ stderr' = next.stderr
    /\ calls' = dropCall(transport.i)
    /\ UNCHANGED <<middlewareVars, callerVars>>
    /\ UNCHANGED <<loggingCommon, google_trace_agent, source, writes, appCalls>>

\* for await: the source has ended
TransportEnd ==
    /\ transport.pc = "pull"
    /\ transport.i > Len(source)
    /\ transport' = [transport EXCEPT !.pc = "ended"]
    /\ UNCHANGED <<middlewareVars, callerVars>>
    /\ UNCHANGED <<loggingCommon, google_trace_agent, calls, writes, source,
                   stderr, appCalls>>

(***************************************************************************)
(* A direct caller of the engine: it calls writeLog or writeRequestLog and *)
(* awaits the promise before its next call.                                *)
(***************************************************************************)
AppWriteLog(logObject, callbackArg) ==
    /\ transport.pc = "off"
    /\ DOMAIN calls = {}
    /\ appCalls < MaxAppCalls
    /\ \E syncOutcome \in SinkOutcomes :
          IssueWrite(appCalls + 1,
                     Spread([op |-> "writeLog", logObject |-> logObject],
                            callbackArg),
                     writeLogEntry(loggingCommon, google_trace_agent, logObject),
                     syncOutcome)
    /\ appCalls' = appCalls + 1
    /\ UNCHANGED <<middlewareVars, callerVars>>
    /\ UNCHANGED <<loggingCommon, google_trace_agent, source, transport, stderr>>

AppWriteRequestLog(args) ==
    /\ transport.pc = "off"
    /\ DOMAIN calls = {}
    /\ appCalls < MaxAppCalls
    /\ \E syncOutcome \in SinkOutcomes :
          IssueWrite(appCalls + 1,
                     [op |-> "writeRequestLog", args |-> args],
                     writeRequestLogEntry(loggingCommon, args),
                     syncOutcome)
    /\ appCalls' = appCalls + 1
    /\ UNCHANGED <<middlewareVars, callerVars>>
    /\ UNCHANGED <<loggingCommon, google_trace_agent, source, transport, stderr>>

AppReturn ==
    /\ transport.pc = "off"
    /\ \E id \in DOMAIN calls :
          /\ calls[id].pc = "done"
          /\ calls' = dropCall(id)
    /\ UNCHANGED <<middlewareVars, callerVars>>
    /\ UNCHANGED <<loggingCommon, google_trace_agent, writes, source, transport,
                   stderr, appCalls>>

(***************************************************************************)
(* getProjectId and its direct caller, which does not wait for one call to *)
(* settle before it makes the next.  The provider's discovery,             *)
(* this.logging.auth.getProjectId(), resolves to the project of the        *)
(* environment's credentials, the same on every invocation, or rejects.    *)
(***************************************************************************)
ProviderProjectId == "discovered-proj"

DiscoveryErrors == {"no-credentials"}

needsDiscoveryAlways(this) == TRUE

\* line 281: if (this.projectId) is false
needsDiscovery(this) == ~TruthyStr(this, "projectId")

\* lines 280-284, up to the await: a set project id is returned, otherwise
\* the provider's discovery is invoked and the call is suspended on it
GetProjectId ==
    /\ transport.pc = "off"
    /\ Len(projectIdCalls) < MaxProjectIdCalls
    /\ IF needsDiscovery(loggingCommon)
       THEN /\ projectIdCalls' =
                  Append(projectIdCalls,
                         [pc |-> "discovering", result |-> "pending"])
            /\ loggingCommon' =
                  [loggingCommon EXCEPT !.logging.auth.getProjectIdCalls = @ + 1]
       ELSE /\ projectIdCalls' =
                  Append(projectIdCalls,
                         [pc |-> "done", result |-> "returned",
                          value |-> loggingCommon.projectId])
            /\ UNCHANGED loggingCommon
    /\ UNCHANGED <<middlewareVars, engineOptions, spanCall>>
    /\ UNCHANGED <<google_trace_agent, calls, writes, source, transport, stderr,
                   appCalls>>

\* lines 284-285, after the await: the discovered id is assigned and
\* returned; a rejection leaves the field alone and rejects the call
DiscoverySettle(n, settled) ==
    /\ n \in DOMAIN projectIdCalls
    /\ projectIdCalls[n].pc = "discovering"
    /\ IF settled = NULL
       THEN /\ loggingCommon' =
                  Assign(loggingCommon, "projectId", ProviderProjectId)
            /\ projectIdCalls' =
                  [projectIdCalls EXCEPT
                      ![n] = [pc |-> "done", result |-> "returned",
                              value |-> ProviderProjectId]]
       ELSE /\ projectIdCalls' =
                  [projectIdCalls EXCEPT
                      ![n] = [pc |-> "done", result |-> "threw",
                              thrown |-> settled]]
            /\ UNCHANGED loggingCommon
    /\ UNCHANGED <<middlewareVars, engineOptions, spanCall>>
    /\ UNCHANGED <<google_trace_agent, calls, writes, source, transport, stderr,
                   appCalls>>

DiscoveryResolve == \E n \in DOMAIN projectIdCalls : DiscoverySettle(n, NULL)

DiscoveryReject ==
    \E n \in DOMAIN projectIdCalls, err \in DiscoveryErrors :
        DiscoverySettle(n, [value |-> err])

(***************************************************************************)
(* A direct caller of getCurrentSpanFromAgent, and the trace agent moving  *)
(* from one root span to another between the calls.                        *)
(***************************************************************************)
GetCurrentSpan ==
    /\ (IF spanCall = NULL THEN 0 ELSE spanCall.n) < MaxSpanCalls
    /\ spanCall' =
          [n |-> IF spanCall = NULL THEN 1 ELSE spanCall.n + 1,
           agent |-> google_trace_agent,
           result |-> getCurrentSpanFromAgent(google_trace_agent),
           previous |-> IF spanCall = NULL THEN NULL ELSE spanCall.result]
    /\ UNCHANGED <<middlewareVars, engineOptions, projectIdCalls>>
    /\ UNCHANGED <<loggingCommon, google_trace_agent, calls, writes, source,
                   transport, stderr, appCalls>>

TraceAgentUpdate(agent) ==
    /\ agent # google_trace_agent
    /\ google_trace_agent' = agent
    /\ UNCHANGED <<middlewareVars, callerVars>>
    /\ UNCHANGED <<loggingCommon, calls, writes, source, transport, stderr,
                   appCalls>>

(***************************************************************************)
(* A direct caller of parseTraceHeader.                                    *)
(***************************************************************************)
ParseTraceHeader ==
    /\ traceHeaderCall # NULL
    /\ traceHeaderCall.pc = "call"
    /\ traceHeaderCall' =
          [traceHeaderCall EXCEPT
              !.pc = "returned",
              !.result = parseTraceHeader(traceHeaderCall.header,
                                          traceHeaderCall.projectId)]
    /\ UNCHANGED callerVars
    /\ UNCHANGED <<loggingCommon, google_trace_agent, calls, writes, source,
                   transport, stderr, appCalls, process_env, middleware,
                   requests>>

(***************************************************************************)
(* middleware/express.ts and middleware/child-logger.ts.  A request is     *)
(* [req, res, trace, spanId, traceSampled, log, hook, nextCalls,           *)
(* unhandledRejection]: trace is an absent key when none is established,   *)
(* hook tells whether a 'finish' listener is registered.                   *)
(***************************************************************************)
TRACE_HEADER == "x-cloud-trace-context"

\* mutant: K_REVISION is not looked at
isMangedEnvironmentNoRevision(env) ==
    \/ TruthyStr(env, "GAE_SERVICE")
    \/ TruthyStr(env, "K_SERVICE")
    \/ TruthyStr(env, "FUNCTION_NAME")

isMangedEnvironment(env) ==
    \/ TruthyStr(env, "GAE_SERVICE")
    \/ TruthyStr(env, "K_SERVICE")
    \/ TruthyStr(env, "FUNCTION_NAME")
    \/ TruthyStr(env, "K_REVISION")

\* lines 131-143: the closure of the middleware and its LoggingCommon
makeMiddleware(options, env) ==
    LET skipParentRequestEntry ==
            IF Has(options, "skipParentRequestEntry")
            THEN options.skipParentRequestEntry
            ELSE isMangedEnvironment(env)
        logName ==
            IF TruthyStr(options, "logName")
            THEN options.logName \o "_reqlog"
            ELSE "pino_log_reqlog"
    IN  [closure |->
            Spread(Pick(options, {"projectId"}),
                   [skipParentRequestEntry |-> skipParentRequestEntry,
                    options |-> options]),
         loggingCommon |->
            IF ~skipParentRequestEntry
            THEN LoggingCommon(Assign(options, "logName", logName))
            ELSE NULL]

\* lines 62-90; the requests carry no content-length, user-agent, referer or
\* x-forwarded-for header, so the properties read from them are undefined;
\* Math.round leaves a whole number of nanoseconds as it is
buildHttpRequest(req, res, latencyMs) ==
    [requestMethod |-> req.method,
     requestUrl |-> req.protocol \o "://" \o req.host \o req.originalUrl,
     status |-> res.statusCode,
     remoteIp |-> req.remoteAddress,
     latency |-> [seconds |-> latencyMs \div 1000,
                  nanos |-> (latencyMs % 1000) * 1000000],
     protocol |-> "HTTP/" \o req.httpVersion]

\* child-logger.ts: logger.child(bindings); the middleware always passes a
\* span id and a sampling flag, so both bindings are set
makeChildLogger(trace, spanId, traceSampled) ==
    [logger |-> "child",
     bindings |-> (LOGGING_TRACE_KEY :> trace)
                  @@ (LOGGING_SPAN_KEY :> spanId)
                  @@ (LOGGING_SAMPLED_KEY :> traceSampled)]

\* mutant: a trace is generated only when the request has no header
acquireContextNoFallback(this, req, generatedTraceId, generatedSpanId) ==
    LET projectId == IF Has(this, "projectId") THEN this.projectId ELSE ""
        traceHeader == IF Has(req, TRACE_HEADER) THEN req[TRACE_HEADER] ELSE <<>>
        parsed ==
            IF Len(traceHeader) > 0 /\ projectId # ""
            THEN parseTraceHeader(traceHeader, projectId)
            ELSE noTraceResult
        trace ==
            IF parsed.trace # NULL
            THEN [trace |-> parsed.trace.value]
            ELSE IF projectId # "" /\ Len(traceHeader) = 0
                 THEN [trace |-> "projects/" \o projectId \o "/traces/"
                                 \o generatedTraceId]
                 ELSE Empty
    IN  Spread(trace,
               [spanId |-> IF parsed.spanId # NULL THEN parsed.spanId.value
                           ELSE generatedSpanId,
                traceSampled |-> parsed.sampled])

\* lines 153-175: extract or generate the trace context
acquireContext(this, req, generatedTraceId, generatedSpanId) ==
    LET projectId == IF Has(this, "projectId") THEN this.projectId ELSE ""
        traceHeader == IF Has(req, TRACE_HEADER) THEN req[TRACE_HEADER] ELSE <<>>
        parsed ==
            IF Len(traceHeader) > 0 /\ projectId # ""
            THEN parseTraceHeader(traceHeader, projectId)
            ELSE noTraceResult
        trace ==
            IF parsed.trace # NULL
            THEN [trace |-> parsed.trace.value]
            ELSE IF projectId # ""
                 THEN [trace |-> "projects/" \o projectId \o "/traces/"
                                 \o generatedTraceId]
                 ELSE Empty
    IN  Spread(trace,
               [spanId |-> IF parsed.spanId # NULL THEN parsed.spanId.value
                           ELSE generatedSpanId,
                traceSampled |-> parsed.sampled])

\* mutant: the listener is registered whether or not a trace was established
finishHookRegisteredAnyTrace(this, common, context) ==
    /\ ~this.skipParentRequestEntry
    /\ common # NULL

\* line 185: if (!skipParentRequestEntry && loggingCommon && trace)
finishHookRegistered(this, common, context) ==
    /\ ~this.skipParentRequestEntry
    /\ common # NULL
    /\ Has(context, "trace")

\* mutant: the listener reads the context of the latest request
capturedContextShared(reqs, id) ==
    LET latest == CHOOSE r \in DOMAIN reqs : \A q \in DOMAIN reqs : q <= r
    IN  Pick(reqs[latest], {"trace", "spanId", "traceSampled"})

\* lines 186-188: capturedTrace, capturedSpanId and capturedTraceSampled, the
\* constants of one invocation of the middleware
capturedContext(reqs, id) == Pick(reqs[id], {"trace", "spanId", "traceSampled"})

\* lines 145-211: one request through the middleware, next() included
CloudLoggingMiddleware(id, req, generatedTraceId, generatedSpanId) ==
    LET context == acquireContext(middleware, req, generatedTraceId,
                                  generatedSpanId)
    IN  /\ middleware # NULL
        /\ id \notin DOMAIN requests
        /\ requests' =
              (id :> Spread(context,
                        [req |-> req,
                         res |-> [finished |-> FALSE],
                         log |-> IF Has(context, "trace")
                                 THEN makeChildLogger(context.trace,
                                                      context.spanId,
                                                      context.traceSampled)
                                 ELSE [logger |-> "parent", bindings |-> Empty],
                         hook |-> finishHookRegistered(middleware, loggingCommon,
                                                       context),
                         nextCalls |-> 1,
                         unhandledRejection |-> FALSE]))
              @@ requests
        /\ UNCHANGED callerVars
        /\ UNCHANGED <<loggingCommon, google_trace_agent, calls, writes, source,
                       transport, stderr, appCalls, process_env, middleware,
                       traceHeaderCall>>

\* lines 191-203: the response emits 'finish'; a registered listener builds
\* the summary and calls writeRequestLog
ResFinish(id, statusCode, latencyMs) ==
    /\ id \in DOMAIN requests
    /\ ~requests[id].res.finished
    /\ LET request == requests[id]
           res == [finished |-> TRUE, statusCode |-> statusCode]
           args == Spread(capturedContext(requests, id),
                          [httpRequest |->
                               buildHttpRequest(request.req, res, latencyMs),
                           latencyMs |-> latencyMs])
       IN  /\ requests' = [requests EXCEPT ![id].res = res]
           /\ IF request.hook
              THEN \E syncOutcome \in SinkOutcomes :
                      IssueWrite(id, [op |-> "writeRequestLog", args |-> args],
                                 writeRequestLogEntry(loggingCommon, args),
                                 syncOutcome)
              ELSE UNCHANGED <<calls, writes>>
    /\ UNCHANGED callerVars
    /\ UNCHANGED <<loggingCommon, google_trace_agent, source, transport, stderr,
                   appCalls, process_env, middleware, traceHeaderCall>>

\* mutant: the promise of writeRequestLog has no catch
finishHookNoCatch(id, call, log) ==
    [stderr |-> log, unhandledRejection |-> call.result = "threw"]

\* lines 204-206: .catch((err) => console.error(...))
finishHookCatch(id, call, log) ==
    [stderr |-> IF call.result = "threw"
                THEN Append(log, [id |-> id, err |-> call.thrown])
                ELSE log,
     unhandledRejection |-> FALSE]

\* the promise of writeRequestLog has settled: its reactions run
FinishHookSettled(id) ==
    /\ middleware # NULL
    /\ id \in DOMAIN calls
    /\ calls[id].pc = "done"
    /\ LET settled == finishHookCatch(id, calls[id], stderr)
       IN  /\ stderr' = settled.stderr
           /\ requests' = [requests EXCEPT
                              ![id].unhandledRejection = settled.unhandledRejection]
    /\ calls' = dropCall(id)
    /\ UNCHANGED callerVars
    /\ UNCHANGED <<loggingCommon, google_trace_agent, writes, source, transport,
                   appCalls, process_env, middleware, traceHeaderCall>>

(***************************************************************************)
(* Inputs: the options, records, callbacks and request summaries the       *)
(* specifications draw from.                                               *)
(***************************************************************************)
ServiceContext == [service |-> "api", version |-> "1"]

ErrNoStack == [type |-> "Error", message |-> "boom"]

ErrEmptyStack == [type |-> "Error", message |-> "boom", stack |-> ""]

ErrStack == [type |-> "Error", message |-> "boom", stack |-> "S"]

Callbacks == {[throwsOn |-> s] : s \in SUBSET {"null", "error"}}

CallbackArgs == {Empty} \cup {[callback |-> cb] : cb \in Callbacks}

DefaultCallbackOptions == {Empty} \cup {[defaultCallback |-> cb] : cb \in Callbacks}

StdoutOptions == {Empty, [redirectToStdout |-> TRUE]}

NoAgent == Empty

Agents ==
    {NoAgent,
     [installed |-> TRUE],
     [installed |-> TRUE, contextId |-> "c0ffee", writerProjectId |-> "agent-proj"]}

\* the records of the call specifications: a plain one and a reported error
CallRecords ==
    {[level |-> 30, time |-> 1, msg |-> "m"],
     [level |-> 50, time |-> 2, msg |-> "failed", err |-> ErrStack]}

CallOptions ==
    {Spread(a, b) : a \in StdoutOptions, b \in DefaultCallbackOptions}

RequestArgs ==
    {[httpRequest |-> [requestMethod |-> "GET", status |-> 200]],
     [httpRequest |-> [requestMethod |-> "GET", status |-> 200,
                       latency |-> [seconds |-> 0, nanos |-> 0]],
      trace |-> "projects/p/traces/abc", spanId |-> "7",
      traceSampled |-> FALSE, latencyMs |-> 0],
     [httpRequest |-> [requestMethod |-> "POST", status |-> 500,
                       latency |-> [seconds |-> 1, nanos |-> 500000000]],
      trace |-> "projects/p/traces/abc", spanId |-> "7",
      traceSampled |-> TRUE, latencyMs |-> 1500]}

\* the records of the payload specification, built from independent parts
LevelParts == {[level |-> l, time |-> 1] : l \in {30, 50, 60}}

MsgParts == {Empty, [msg |-> "m"]}

ErrParts ==
    {Empty, [err |-> ErrNoStack], [err |-> ErrEmptyStack], [err |-> ErrStack]}

ProcessParts ==
    {Empty, [pid |-> 0, hostname |-> ""], [pid |-> 42, hostname |-> "host"]}

ElevatedParts ==
    {Empty,
     (LOGGING_TRACE_KEY :> "projects/p/traces/abc")
     @@ (LOGGING_SPAN_KEY :> "7")
     @@ (LOGGING_SAMPLED_KEY :> TRUE)
     @@ [httpRequest |-> [requestMethod |-> "GET"], labels |-> [env |-> "record"]]}

UserParts ==
    {Empty,
     [foo |-> "bar"],
     [foo |-> "bar", message |-> "user message", error |-> [code |-> "E1"]],
     [serviceContext |-> [service |-> "from-record"]] @@ ("@type" :> "user.type"),
     [foo |-> "bar", message |-> "user message", error |-> [code |-> "E1"],
      serviceContext |-> [service |-> "from-record"]] @@ ("@type" :> "user.type")}

PayloadRecords ==
    {Spread(Spread(Spread(l, m), Spread(e, p)), Spread(v, u)) :
        l \in LevelParts, m \in MsgParts, e \in ErrParts, p \in ProcessParts,
        v \in ElevatedParts, u \in UserParts}

PayloadOptions ==
    {Spread(Spread(a, b), Spread(c, d)) :
        a \in {Empty, [serviceContext |-> ServiceContext]},
        b \in {Empty, [useMessageField |-> FALSE]},
        c \in {Empty, [prefix |-> "svc", labels |-> [env |-> "configured"]]},
        d \in StdoutOptions}

LevelRecords == {[level |-> l, time |-> 1, msg |-> "m"] : l \in -LevelRange .. LevelRange}

\* the records a transport stream carries
StreamRecords == CallRecords

Streams == UNION {[1 .. n -> StreamRecords] : n \in 0 .. MaxStream}

\* the options and records of the message-format specification
ErrLongStack ==
    [type |-> "Error", message |-> "boom", stack |-> "Error: boom\n    at main"]

FormatOptions ==
    {Spread(Spread(a, b), c) :
        a \in {Empty, [prefix |-> ""], [prefix |-> "svc"]},
        b \in {Empty, [useMessageField |-> FALSE]},
        c \in StdoutOptions}

FormatRecords ==
    {Spread(Spread([level |-> 30, time |-> 1], m), e) :
        m \in {Empty, [msg |-> ""], [msg |-> "m"]},
        e \in ErrParts \cup {[err |-> ErrLongStack]}}

\* the options of the engine specification: the project id absent, empty or
\* supplied, each sink, and every other option absent or configured
MonitoredResource == [type |-> "gce_instance", labels |-> [zone |-> "z1"]]

ConfiguredOptions ==
    [resource |-> MonitoredResource,
     serviceContext |-> ServiceContext,
     labels |-> [env |-> "configured"],
     prefix |-> "svc",
     useMessageField |-> FALSE,
     maxEntrySize |-> 1000,
     defaultCallback |-> [throwsOn |-> {}]]

EngineOptions ==
    {Spread(Spread(a, b), c) :
        a \in {Empty, [projectId |-> ""], [projectId |-> "proj"]},
        b \in {Empty, ConfiguredOptions},
        c \in StdoutOptions}

\* the agents and records of the trace-extraction specification
ExtractAgents ==
    Agents \cup
    {[installed |-> TRUE, contextId |-> "c0ffee"],
     [installed |-> TRUE, contextId |-> "", writerProjectId |-> "agent-proj"],
     [installed |-> TRUE, contextId |-> "c0ffee", writerProjectId |-> ""]}

ExtractRecords ==
    {Spread(Spread([level |-> 30, time |-> 1, msg |-> "m"], t), Spread(sp, f)) :
        t \in {Empty, LOGGING_TRACE_KEY :> "", LOGGING_TRACE_KEY :> "projects/p/traces/abc"},
        sp \in {Empty, LOGGING_SPAN_KEY :> "", LOGGING_SPAN_KEY :> "7"},
        f \in {Empty, LOGGING_SAMPLED_KEY :> TRUE, LOGGING_SAMPLED_KEY :> FALSE}}

\* the options and records of the label specification
LabelOptions ==
    {Spread(a, b) :
        a \in {Empty, [labels |-> Empty],
               [labels |-> [env |-> "configured", app |-> "a"]]},
        b \in StdoutOptions}

LabelRecords ==
    {Spread([level |-> v, time |-> 1, msg |-> "m"], l) :
        v \in {30, 50},
        l \in {Empty, [labels |-> Empty], [labels |-> [env |-> "record"]],
               [labels |-> [team |-> "t"]],
               [labels |-> [env |-> "record", team |-> "t"]]}}

\* the headers parseTraceHeader is called with, built from a trace part, a
\* span part, a flag part and trailing text
NotHex == <<"n", "o", "t", "-", "h", "e", "x", "!", "!">>

TraceIdParts == {<<>>, <<"a">>, <<"0", "A", "f", "9">>, <<"g">>, NotHex}

SpanIdParts ==
    {<<>>, <<"/">>, <<"/", "0">>, <<"/", "4", "2">>, <<"/", "a">>,
     <<"/", "-", "1">>}

FlagParts ==
    {<<>>, <<";", "o", "=", "1">>, <<";", "o", "=", "0">>, <<";", "o", "=", "7">>,
     <<";", "o", "=">>, <<";", "o", "=", "1", "1">>, <<";", "o", "=", "x">>,
     <<";", "O", "=", "1">>, <<"o", "=", "1">>}

TailParts == {<<>>, <<" ">>, <<"x">>}

Headers ==
    {t \o sp \o f \o x :
        t \in TraceIdParts, sp \in SpanIdParts, f \in FlagParts, x \in TailParts}

ProjectIds == {"", "proj"}

\* the trace contexts of a root span, built from independent parts, and the
\* agents of the span specification
TraceContexts ==
    {t \o sep \o sp \o x :
        t \in {<<>>, <<"T">>},
        sep \in {<<>>, <<"/">>},
        sp \in {<<>>, <<"S">>, <<"4", "2">>},
        x \in {<<>>, <<";">>, <<";", "o", "=", "1">>, <<"/", "x">>,
               <<";", "o", "=", "1", "/", "x">>, <<";", "a", ";", "b">>}}

SpanAgents ==
    {NoAgent, [installed |-> TRUE]}
    \cup {[installed |-> TRUE, rootSpan |-> [traceContext |-> c]] :
              c \in TraceContexts}

\* process.env
Envs ==
    {Empty,
     [GAE_SERVICE |-> "default"],
     [K_SERVICE |-> "svc"],
     [FUNCTION_NAME |-> "fn"],
     [K_REVISION |-> "rev"],
     [K_SERVICE |-> ""]}

MiddlewareOptions ==
    {Spread(Spread(a, b), c) :
        a \in {Empty, [projectId |-> ""], [projectId |-> "proj"]},
        b \in {Empty, [skipParentRequestEntry |-> TRUE],
               [skipParentRequestEntry |-> FALSE]},
        c \in {Empty,
               [redirectToStdout |-> TRUE, logName |-> "app",
                labels |-> [env |-> "configured"]]}}

\* the requests: without the header, and with each of these values of it
RequestHeaders ==
    {<<>>, <<"a", "b", "c">>,
     <<"0", "A", "f", "9", "/", "4", "2", ";", "o", "=", "1">>,
     NotHex, <<"a", "b", "c", "/", "x">>}

Requests ==
    {Spread([method |-> "GET", protocol |-> "https", host |-> "example.com",
             originalUrl |-> "/", httpVersion |-> "1.1",
             remoteAddress |-> "10.0.0.1"], h) :
        h \in {Empty} \cup {TRACE_HEADER :> v : v \in RequestHeaders}}

\* the random values drawn for one request: randomUUID().replace(/-/g, '')
\* and Math.floor(Math.random() * Number.MAX_SAFE_INTEGER).toString()
GeneratedIds ==
    {[traceId |-> "9e8d7c6b", spanId |-> "0"],
     [traceId |-> "1b2a3f4e", spanId |-> "8472"]}

\* Date.now() - startTime
Latencies == {0, 1250}

StatusCodes == {200}

(***************************************************************************)
(* Specifications.                                                         *)
(***************************************************************************)
InitEngine(options, agents) ==
    /\ \E o \in options :
          /\ engineOptions = o
          /\ loggingCommon = LoggingCommon(o)
    /\ spanCall = NULL
    /\ projectIdCalls = <<>>
    /\ google_trace_agent \in agents
    /\ calls = Empty
    /\ writes = <<>>
    /\ stderr = <<>>
    /\ appCalls = 0
    /\ process_env = Empty
    /\ middleware = NULL
    /\ requests = Empty
    /\ traceHeaderCall = NULL

InitApp(options, agents) ==
    /\ InitEngine(options, agents)
    /\ source = <<>>
    /\ transport = [pc |-> "off", i |-> 0]

\* the transport: createTransport(options) fed a stream of records
InitTransport ==
    /\ InitEngine(CallOptions, {NoAgent})
    /\ source \in Streams
    /\ transport = [pc |-> "pull", i |-> 1]

NextTransport ==
    \/ TransportPull
    \/ TransportResume
    \/ TransportEnd
    \/ SinkResolve
    \/ SinkReject

SpecTransport == InitTransport /\ [][NextTransport]_vars

\* the event loop runs every continuation that is ready, and the sink
\* settles every write it was handed
FairSpecTransport == SpecTransport /\ WF_vars(NextTransport)

\* writeLog and writeRequestLog called with and without callbacks
InitCalls == InitApp(CallOptions, Agents)

NextCalls ==
    \/ \E logObject \in CallRecords, cb \in CallbackArgs : AppWriteLog(logObject, cb)
    \/ \E args \in RequestArgs : AppWriteRequestLog(args)
    \/ SinkResolve
    \/ SinkReject
    \/ AppReturn

SpecCalls == InitCalls /\ [][NextCalls]_vars

\* writeLog, writeRequestLog and getProjectId called on one engine
InitEngineCalls == InitApp(EngineOptions, {NoAgent})

NextEngineCalls ==
    \/ \E logObject \in CallRecords : AppWriteLog(logObject, Empty)
    \/ \E args \in RequestArgs : AppWriteRequestLog(args)
    \/ SinkResolve
    \/ SinkReject
    \/ AppReturn
    \/ GetProjectId
    \/ DiscoveryResolve
    \/ DiscoveryReject

SpecEngine == InitEngineCalls /\ [][NextEngineCalls]_vars

\* writeLog over records with every mix of reserved and user fields
InitPayload == InitApp(PayloadOptions, {NoAgent})

NextPayload ==
    \/ \E logObject \in PayloadRecords : AppWriteLog(logObject, Empty)
    \/ SinkResolve
    \/ SinkReject
    \/ AppReturn

SpecPayload == InitPayload /\ [][NextPayload]_vars

\* writeLog over every level of a range around the canonical ones
InitLevel == InitApp(StdoutOptions, {NoAgent})

NextLevel ==
    \/ \E logObject \in LevelRecords : AppWriteLog(logObject, Empty)
    \/ SinkResolve
    \/ SinkReject
    \/ AppReturn

SpecLevel == InitLevel /\ [][NextLevel]_vars

\* writeLog over every mix of prefix, message and error stack
InitFormat == InitApp(FormatOptions, {NoAgent})

NextFormat ==
    \/ \E logObject \in FormatRecords : AppWriteLog(logObject, Empty)
    \/ SinkResolve
    \/ SinkReject
    \/ AppReturn

SpecFormat == InitFormat /\ [][NextFormat]_vars

\* writeLog over records with and without trace fields, under every agent
InitExtract == InitApp(StdoutOptions, ExtractAgents)

NextExtract ==
    \/ \E logObject \in ExtractRecords : AppWriteLog(logObject, Empty)
    \/ SinkResolve
    \/ SinkReject
    \/ AppReturn

SpecExtract == InitExtract /\ [][NextExtract]_vars

\* writeLog over configured and record labels
InitLabels == InitApp(LabelOptions, {NoAgent})

NextLabels ==
    \/ \E logObject \in LabelRecords : AppWriteLog(logObject, Empty)
    \/ SinkResolve
    \/ SinkReject
    \/ AppReturn

SpecLabels == InitLabels /\ [][NextLabels]_vars

\* parseTraceHeader called on a header and a project id
InitTrace ==
    /\ \E header \in Headers, projectId \in ProjectIds :
          traceHeaderCall = [pc |-> "call", header |-> header,
                             projectId |-> projectId, result |-> NULL]
    /\ loggingCommon = NULL
    /\ google_trace_agent = NoAgent
    /\ calls = Empty
    /\ writes = <<>>
    /\ source = <<>>
    /\ transport = [pc |-> "off", i |-> 0]
    /\ stderr = <<>>
    /\ appCalls = 0
    /\ process_env = Empty
    /\ middleware = NULL
    /\ requests = Empty
    /\ engineOptions = NULL
    /\ spanCall = NULL
    /\ projectIdCalls = <<>>

NextTrace == ParseTraceHeader

SpecTrace == InitTrace /\ [][NextTrace]_vars

\* getCurrentSpanFromAgent called while the agent's root span changes
InitSpan ==
    /\ google_trace_agent \in SpanAgents
    /\ spanCall = NULL
    /\ loggingCommon = NULL
    /\ calls = Empty
    /\ writes = <<>>
    /\ source = <<>>
    /\ transport = [pc |-> "off", i |-> 0]
    /\ stderr = <<>>
    /\ appCalls = 0
    /\ process_env = Empty
    /\ middleware = NULL
    /\ requests = Empty
    /\ traceHeaderCall = NULL
    /\ engineOptions = NULL
    /\ projectIdCalls = <<>>

NextSpan ==
    \/ GetCurrentSpan
    \/ \E agent \in SpanAgents : TraceAgentUpdate(agent)

SpecSpan == InitSpan /\ [][NextSpan]_vars

\* app.use(makeMiddleware(logger, options)) serving requests
InitMiddleware ==
    /\ process_env \in Envs
    /\ \E options \in MiddlewareOptions :
          LET made == makeMiddleware(options, process_env)
          IN  /\ middleware = made.closure
              /\ loggingCommon = made.loggingCommon
    /\ google_trace_agent = NoAgent
    /\ calls = Empty
    /\ writes = <<>>
    /\ source = <<>>
    /\ transport = [pc |-> "off", i |-> 0]
    /\ stderr = <<>>
    /\ appCalls = 0
    /\ requests = Empty
    /\ traceHeaderCall = NULL
    /\ engineOptions = NULL
    /\ spanCall = NULL
    /\ projectIdCalls = <<>>

NextMiddleware ==
    \/ \E req \in Requests, generated \in GeneratedIds :
          /\ Cardinality(DOMAIN requests) < MaxRequests
          /\ CloudLoggingMiddleware(Cardinality(DOMAIN requests) + 1, req,
                                    generated.traceId, generated.spanId)
    \/ \E id \in DOMAIN requests, statusCode \in StatusCodes,
          latencyMs \in Latencies : ResFinish(id, statusCode, latencyMs)
    \/ SinkResolve
    \/ SinkReject
    \/ \E id \in DOMAIN calls : FinishHookSettled(id)

SpecMiddleware == InitMiddleware /\ [][NextMiddleware]_vars

(***************************************************************************)
(* Properties.                                                             *)
(***************************************************************************)
\* the records whose loop body the transport has finished
Processed == 1 .. (transport.i - 1)

WritesOf(id) == {n \in DOMAIN writes : writes[n].id = id}

ReportsOf(id) == {n \in DOMAIN stderr : stderr[n].id = id}

InFlight == {n \in DOMAIN writes : writes[n].status = "inflight"}

TransportIsolated ==
    /\ transport.pc # "failed"
    /\ \A k \in Processed :
          /\ k \in DOMAIN writes
          /\ WritesOf(k) = {k}
          /\ writes[k].status \in {"delivered", "rejected"}
          /\ writes[k].status = "rejected" => Cardinality(ReportsOf(k)) = 1
    /\ transport.pc = "ended" => Processed = 1 .. Len(source)

\* C1: the transport loop calls writeLog once for every record of the stream,
\* every record whose write the sink does not reject is delivered, every
\* rejected record is reported exactly once on stderr, no failure leaves the
\* loop, and the loop ends once the source has ended.
C1_TransportFailureIsolation ==
    [](TransportIsolated) /\ <>(transport.pc = "ended")

\* a stream of three records whose second write was rejected has ended with
\* two delivered writes and one report
C1_Witness ==
    /\ transport.pc = "ended"
    /\ Len(source) = 3
    /\ Len(writes) = 3
    /\ writes[1].status = "delivered"
    /\ writes[2].status = "rejected"
    /\ writes[3].status = "delivered"
    /\ Len(stderr) = 1
    /\ stderr[1].id = 2

\* C2: the sink receives the writes of a stream in the arrival order of the
\* records, never two of them in flight, and the write of record i has
\* settled before writeLog is called for record i+1.
C2_TransportOrdering ==
    /\ \A n \in DOMAIN writes : writes[n].id = n
    /\ Cardinality(InFlight) <= 1
    /\ \A n \in DOMAIN writes : n < Len(writes) => writes[n].status # "inflight"
    /\ \A id \in DOMAIN calls : id = transport.i

\* the third record's remote write is in flight after the first two settled
C2_Witness ==
    /\ Len(writes) = 3
    /\ writes[1].status = "rejected"
    /\ writes[2].status = "delivered"
    /\ writes[3].status = "inflight"

WriteLogCalls == {id \in DOMAIN calls : calls[id].op = "writeLog"}

DoneCalls(op) == {id \in DOMAIN calls : calls[id].op = op /\ calls[id].pc = "done"}

\* what the sink's write settled with: NULL, or the rejection
settledArg(call) == call.events[2].arg

Positions(call, e) == {n \in DOMAIN call.events : call.events[n] = e}

Invoked(call, who, arg) == Positions(call, Ev("invoke", who, arg)) # {}

\* C3: when the sink rejects the write, writeLog invokes the per-call callback
\* (if given) and the default callback (if configured) with the error, and
\* then fails to its caller with that same error.
C3_WriteLogFailurePath ==
    \A id \in DoneCalls("writeLog") :
        LET call == calls[id]
            error == toError(settledArg(call))
        IN  settledArg(call) # NULL =>
                /\ Has(call, "callback") => Invoked(call, "callback", error)
                /\ Has(loggingCommon, "defaultCallback") =>
                       Invoked(call, "defaultCallback", error)
                /\ call.result = "threw"
                /\ call.thrown = error

\* C4: when the sink's write succeeds, the per-call callback (if given) and
\* then the default callback (if configured) are invoked with a null error,
\* after the write completed, and writeLog completes without failure.
C4_WriteLogSuccessPath ==
    \A id \in DoneCalls("writeLog") :
        LET call == calls[id]
            cb == Positions(call, Ev("invoke", "callback", NULL))
            dcb == Positions(call, Ev("invoke", "defaultCallback", NULL))
        IN  settledArg(call) = NULL =>
                /\ Has(call, "callback") => \E n \in cb : n > 2
                /\ Has(loggingCommon, "defaultCallback") =>
                       \E n \in dcb : n > 2 /\ \A m \in cb : m < n
                /\ call.result = "returned"

\* C5: when the sink rejects the write of writeRequestLog, the configured
\* default callback is invoked with the error before writeRequestLog fails
\* to its caller.
C5_WriteRequestLogFailurePath ==
    \A id \in DoneCalls("writeRequestLog") :
        LET call == calls[id]
        IN  settledArg(call) # NULL =>
                /\ Has(loggingCommon, "defaultCallback") =>
                       \E n \in DOMAIN call.events :
                           /\ call.events[n].ev = "invoke"
                           /\ call.events[n].who = "defaultCallback"
                           /\ call.events[n].arg # NULL
                /\ call.result = "threw"

severityRank(severity) ==
    CASE severity = "DEBUG" -> 0
      [] severity = "INFO" -> 1
      [] severity = "WARNING" -> 2
      [] severity = "ERROR" -> 3
      [] severity = "CRITICAL" -> 4

\* C6: the severity of the entry writeLog builds is the five-bucket threshold
\* map of the record's level, for every integer level, and it never
\* increases as the level decreases.
C6_SeverityBuckets ==
    \A id \in WriteLogCalls :
        LET level == calls[id].logObject.level
            severity == calls[id].entry.metadata.severity
        IN  /\ level >= 60 => severity = "CRITICAL"
            /\ (50 <= level /\ level < 60) => severity = "ERROR"
            /\ (40 <= level /\ level < 50) => severity = "WARNING"
            /\ (30 <= level /\ level < 40) => severity = "INFO"
            /\ level < 30 => severity = "DEBUG"
            /\ \A lower \in -LevelRange .. LevelRange :
                   lower <= level =>
                       severityRank(mapLevel(lower)) <= severityRank(severity)

\* an entry was built for the custom level 35 with severity INFO
C6_Witness ==
    \E id \in WriteLogCalls :
        /\ calls[id].logObject.level = 35
        /\ calls[id].entry.metadata.severity = "INFO"

\* the reserved record keys
ReservedKeys ==
    {"level", "time", "msg", "pid", "hostname", "err", "httpRequest", "labels",
     "logging.googleapis.com/trace", "logging.googleapis.com/spanId",
     "logging.googleapis.com/trace_sampled"}

ErrorReportingKeys == {"@type", "serviceContext"}

\* the three conditions of the error-reporting augmentation
ReportConditions(logObject, severity) ==
    /\ Has(loggingCommon, "serviceContext")
    /\ severity \in {"ERROR", "CRITICAL"}
    /\ Has(logObject, "err")
    /\ Has(logObject.err, "stack")
    /\ logObject.err.stack # ""

\* C7: the payload writeLog writes carries the error-reporting augmentation
\* (the ReportedErrorEvent '@type' and the configured service context) if and
\* only if a service context is configured, the severity is ERROR or CRITICAL
\* and the record's error has a non-empty stack; otherwise the payload holds
\* under those two keys only what the record itself carried.
C7_ErrorReportingIff ==
    \A id \in WriteLogCalls :
        LET logObject == calls[id].logObject
            data == calls[id].entry.data
        IN  IF ReportConditions(logObject, calls[id].entry.metadata.severity)
            THEN /\ Has(data, "@type")
                 /\ data["@type"] = REPORTED_ERROR_EVENT
                 /\ Has(data, "serviceContext")
                 /\ data.serviceContext = loggingCommon.serviceContext
            ELSE \A k \in ErrorReportingKeys :
                    /\ Has(data, k) <=> Has(logObject, k)
                    /\ Has(logObject, k) => data[k] = logObject[k]

\* an ERROR record with a stack and no field of its own under the two keys
\* was written with the augmentation
C7_Witness ==
    \E id \in WriteLogCalls :
        /\ ReportConditions(calls[id].logObject, "ERROR")
        /\ calls[id].logObject.level = 50
        /\ ErrorReportingKeys \cap DOMAIN calls[id].logObject = {}
        /\ calls[id].entry.data["@type"] = REPORTED_ERROR_EVENT
        /\ calls[id].entry.data.serviceContext = ServiceContext
        /\ calls[id].pc = "done"

\* C8: the error-reporting augmentation only adds payload fields: every field
\* the payload held before the augmentation step is in the written payload
\* with the same value.
C8_AugmentationAdditive ==
    \A id \in WriteLogCalls :
        LET before == entryData(loggingCommon, calls[id].logObject)
            data == calls[id].entry.data
        IN  \A k \in DOMAIN before : Has(data, k) /\ data[k] = before[k]

\* C9: every record field whose key is not reserved is in the payload of the
\* written entry under the same key with the same value.
C9_UserPayloadRoundTrip ==
    \A id \in WriteLogCalls :
        LET logObject == calls[id].logObject
            data == calls[id].entry.data
        IN  \A k \in DOMAIN logObject \ ReservedKeys :
                Has(data, k) /\ data[k] = logObject[k]

\* C10, as claimed: the mapping buildMetadata returns, and the payload body,
\* hold none of the reserved keys.
C10_NoReservedKeys ==
    \A id \in WriteLogCalls :
        /\ DOMAIN buildMetadata(calls[id].logObject) \cap ReservedKeys = {}
        /\ DOMAIN calls[id].entry.data \cap ReservedKeys = {}

\* C10, amended: the mapping buildMetadata returns, and the payload body,
\* hold none of the reserved keys other than pid and hostname; pid is there
\* exactly when the record's pid is not 0, hostname exactly when the record's
\* hostname is not empty, each with the record's value; httpRequest and
\* labels are only in the metadata envelope.
C10_NoReservedKeysButProcessInfo ==
    \A id \in WriteLogCalls :
        LET logObject == calls[id].logObject
            metadata == buildMetadata(logObject)
            data == calls[id].entry.data
        IN  /\ DOMAIN metadata \cap (ReservedKeys \ {"pid", "hostname"}) = {}
            /\ DOMAIN data \cap (ReservedKeys \ {"pid", "hostname"}) = {}
            /\ \A m \in {metadata, data} :
                  /\ Has(m, "pid") <=> (Has(logObject, "pid") /\ logObject.pid # 0)
                  /\ Has(m, "pid") => m.pid = logObject.pid
                  /\ Has(m, "hostname") <=>
                         (Has(logObject, "hostname") /\ logObject.hostname # "")
                  /\ Has(m, "hostname") => m.hostname = logObject.hostname
            /\ Has(logObject, "httpRequest") =>
                   calls[id].entry.metadata.httpRequest = logObject.httpRequest
            /\ Has(logObject, "labels") => Has(calls[id].entry.metadata, "labels")

\* a record with pid 42, a hostname, httpRequest and labels was written: pid
\* is in the payload, httpRequest and labels are not
C10_Witness ==
    \E id \in WriteLogCalls :
        /\ calls[id].pc = "done"
        /\ Has(calls[id].logObject, "httpRequest")
        /\ Has(calls[id].logObject, "labels")
        /\ Has(calls[id].logObject, "pid")
        /\ calls[id].logObject.pid = 42
        /\ calls[id].entry.data.pid = 42
        /\ calls[id].entry.data.hostname = "host"
        /\ ~Has(calls[id].entry.data, "labels")

\* the record's message, its error's stack and the configured prefix, each
\* the empty string when absent
MsgOf(logObject) == IF Has(logObject, "msg") THEN logObject.msg ELSE ""

StackOf(logObject) ==
    IF Has(logObject, "err") /\ Has(logObject.err, "stack")
    THEN logObject.err.stack ELSE ""

PrefixOf(this) == IF Has(this, "prefix") THEN this.prefix ELSE ""

\* the message formatMessage returns is the one the entry carries
MessageWritten(id, message) ==
    (loggingCommon.useMessageField /\ message # "") =>
        /\ Has(calls[id].entry.data, "message")
        /\ calls[id].entry.data.message = message

\* C11, as claimed: for every record whose message is absent or empty and
\* whose error has a non-empty stack S, under every prefix configuration, the
\* formatted message is exactly S.
C11_StackIsEntireMessage ==
    \A id \in WriteLogCalls :
        LET logObject == calls[id].logObject
        IN  (MsgOf(logObject) = "" /\ StackOf(logObject) # "") =>
                formatMessage(loggingCommon, logObject) = StackOf(logObject)

\* C11, amended: for every record whose message is absent or empty and whose
\* error has a non-empty stack S, the formatted message is exactly S when no
\* non-empty prefix is configured, and '[P] ' followed by a newline and S
\* when the non-empty prefix P is configured; the entry carries that message.
C11_StackIsEntireMessageWithoutPrefix ==
    \A id \in WriteLogCalls :
        LET logObject == calls[id].logObject
            message == formatMessage(loggingCommon, logObject)
            S == StackOf(logObject)
            P == PrefixOf(loggingCommon)
        IN  (MsgOf(logObject) = "" /\ S # "") =>
                /\ P = "" => message = S
                /\ P # "" => message = "[" \o P \o "] " \o "\n" \o S
                /\ MessageWritten(id, message)

\* a record with an empty message and the stack S was written under the
\* prefix svc: the message is the prefix, a newline and the stack
C11_Witness ==
    \E id \in WriteLogCalls :
        /\ calls[id].pc = "done"
        /\ Has(calls[id].logObject, "msg")
        /\ calls[id].logObject.msg = ""
        /\ StackOf(calls[id].logObject) = "S"
        /\ PrefixOf(loggingCommon) = "svc"
        /\ Has(calls[id].entry.data, "message")
        /\ calls[id].entry.data.message = "[svc] \nS"

\* C12: without a prefix and without an error stack the formatted message is
\* the record's message (empty when absent); with a non-empty prefix P it is
\* '[P] ' followed by the record's message; and when the message m and the
\* stack S are both non-empty it is the (possibly prefixed) message, one
\* newline, then S.
C12_PrefixAndAppend ==
    \A id \in WriteLogCalls :
        LET logObject == calls[id].logObject
            message == formatMessage(loggingCommon, logObject)
            m == MsgOf(logObject)
            S == StackOf(logObject)
            P == PrefixOf(loggingCommon)
            prefixed == IF P # "" THEN "[" \o P \o "] " \o m ELSE m
        IN  /\ (P = "" /\ S = "") => message = m
            /\ (P # "" /\ S = "") => message = "[" \o P \o "] " \o m
            /\ (P # "" /\ S # "") => message = "[" \o P \o "] " \o m \o "\n" \o S
            /\ (m # "" /\ S # "") => message = prefixed \o "\n" \o S
            /\ MessageWritten(id, message)

\* the record with message m and a two-line stack was written under the
\* prefix svc
C12_Witness ==
    \E id \in WriteLogCalls :
        /\ calls[id].pc = "done"
        /\ MsgOf(calls[id].logObject) = "m"
        /\ StackOf(calls[id].logObject) = ErrLongStack.stack
        /\ PrefixOf(loggingCommon) = "svc"
        /\ Has(calls[id].entry.data, "message")
        /\ calls[id].entry.data.message = "[svc] m\nError: boom\n    at main"

AllIn(s, class) == \A n \in DOMAIN s : s[n] \in class

\* the ways to read h as TRACE_ID[/SPAN_ID][;o=D]: <<a, b>> when h[1..a] is
\* the trace id, h[a+1..b] the span part (none when b = a) and the rest the
\* flag part (none when b = Len(h)), the flag's letter being one of markers
WellFormedParts(h, markers) ==
    {ab \in (1 .. Len(h)) \X (1 .. Len(h)) :
        /\ ab[1] <= ab[2]
        /\ Len(h) > ab[2] =>
              /\ Len(h) = ab[2] + 4
              /\ h[ab[2] + 1] = ";"
              /\ h[ab[2] + 2] \in markers
              /\ h[ab[2] + 3] = "="
              /\ h[ab[2] + 4] \in DecimalDigits
        /\ ab[2] > ab[1] =>
              /\ ab[2] >= ab[1] + 2
              /\ h[ab[1] + 1] = "/"
              /\ AllIn(SubSeq(h, ab[1] + 2, ab[2]), DecimalDigits)
        /\ AllIn(SubSeq(h, 1, ab[1]), HexDigits)}

ParseReturned == traceHeaderCall # NULL /\ traceHeaderCall.pc = "returned"

\* C13: for a non-empty project id and a header TRACE_ID[/SPAN_ID][;o=D]
\* (TRACE_ID hex digits of either case, SPAN_ID decimal digits, D one digit),
\* parseTraceHeader returns trace 'projects/{projectId}/traces/{TRACE_ID}'
\* with TRACE_ID verbatim, spanId SPAN_ID or null without that part, and
\* sampled true exactly when D is '1'.
C13_ParseWellFormed ==
    (ParseReturned /\ traceHeaderCall.projectId # "") =>
        LET h == traceHeaderCall.header
            result == traceHeaderCall.result
        IN  \A ab \in WellFormedParts(h, {"o"}) :
                /\ result.trace =
                      [value |-> "projects/" \o traceHeaderCall.projectId
                                 \o "/traces/" \o Join(SubSeq(h, 1, ab[1]))]
                /\ ab[2] > ab[1] =>
                      result.spanId = [value |-> Join(SubSeq(h, ab[1] + 2, ab[2]))]
                /\ ab[2] = ab[1] => result.spanId = NULL
                /\ result.sampled = (Len(h) > ab[2] /\ h[Len(h)] = "1")

\* 0Af9/42;o=1 was parsed for the project proj
C13_Witness ==
    /\ ParseReturned
    /\ traceHeaderCall.projectId = "proj"
    /\ traceHeaderCall.header =
          <<"0", "A", "f", "9", "/", "4", "2", ";", "o", "=", "1">>
    /\ traceHeaderCall.result =
          [trace |-> [value |-> "projects/proj/traces/0Af9"],
           spanId |-> [value |-> "42"], sampled |-> TRUE]

\* C14: parseTraceHeader returns, and returns {trace: null, spanId: null,
\* sampled: false}, whenever the header is empty, the project id is empty or
\* the whole header does not match the pattern TRACE_ID[/SPAN_ID][;o=D] (read
\* with the pattern's ignore-case flag, under which the flag's letter is o or
\* O); no result is partially filled: one without a trace has no span id and
\* is not sampled.
C14_ParseNoMatch ==
    /\ (traceHeaderCall # NULL /\ traceHeaderCall.pc = "call") =>
          ENABLED ParseTraceHeader
    /\ ParseReturned =>
          LET h == traceHeaderCall.header
              result == traceHeaderCall.result
          IN  /\ (\/ Len(h) = 0
                  \/ traceHeaderCall.projectId = ""
                  \/ WellFormedParts(h, FlagMarkers) = {}) =>
                     result = noTraceResult
              /\ result.trace = NULL => result = noTraceResult

\* not-hex!! was parsed for the project proj: nothing is filled in
C14_Witness ==
    /\ ParseReturned
    /\ traceHeaderCall.projectId = "proj"
    /\ traceHeaderCall.header = NotHex
    /\ traceHeaderCall.result = noTraceResult

\* C15: the trace, span id and sampling flag of an entry are resolved one by
\* one: a (non-empty) trace on the record is used verbatim whatever the agent
\* reports; only a record without one takes the agent's trace, which is
\* 'projects/{projectId}/traces/{traceId}' when an agent is installed and
\* reports a non-empty context id and a non-empty writer project id, and no
\* trace otherwise; the span id and the sampling flag are those of the
\* record and are absent when the record has none, whatever the agent.
C15_TracePrecedence ==
    \A id \in WriteLogCalls :
        LET logObject == calls[id].logObject
            metadata == calls[id].entry.metadata
            agent == google_trace_agent
            agentReports ==
                /\ Has(agent, "installed")
                /\ Has(agent, "contextId") /\ agent.contextId # ""
                /\ Has(agent, "writerProjectId") /\ agent.writerProjectId # ""
        IN  /\ IF Has(logObject, LOGGING_TRACE_KEY) /\ logObject[LOGGING_TRACE_KEY] # ""
               THEN /\ Has(metadata, "trace")
                    /\ metadata.trace = logObject[LOGGING_TRACE_KEY]
               ELSE IF agentReports
                    THEN /\ Has(metadata, "trace")
                         /\ metadata.trace =
                               "projects/" \o agent.writerProjectId \o "/traces/"
                               \o agent.contextId
                    ELSE ~Has(metadata, "trace")
            /\ Has(metadata, "spanId") <=>
                  (Has(logObject, LOGGING_SPAN_KEY) /\ logObject[LOGGING_SPAN_KEY] # "")
            /\ Has(metadata, "spanId") => metadata.spanId = logObject[LOGGING_SPAN_KEY]
            /\ Has(metadata, "traceSampled") <=> Has(logObject, LOGGING_SAMPLED_KEY)
            /\ Has(metadata, "traceSampled") =>
                  metadata.traceSampled = logObject[LOGGING_SAMPLED_KEY]

\* under an agent that reports a trace, a record with its own trace and no
\* span id was written with the record's trace and no span id
C15_Witness ==
    \E id \in WriteLogCalls :
        /\ calls[id].pc = "done"
        /\ getCurrentTraceFromAgent(google_trace_agent) # NULL
        /\ Has(calls[id].logObject, LOGGING_TRACE_KEY)
        /\ ~Has(calls[id].logObject, LOGGING_SPAN_KEY)
        /\ Has(calls[id].entry.metadata, "trace")
        /\ calls[id].entry.metadata.trace = "projects/p/traces/abc"
        /\ ~Has(calls[id].entry.metadata, "spanId")

\* C16: the labels of the envelope writeLog builds are the union of the
\* configured labels and the record's labels, the record's value on every
\* key of both; the envelope has no labels field exactly when that union is
\* empty.
C16_LabelMerge ==
    \A id \in WriteLogCalls :
        LET logObject == calls[id].logObject
            metadata == calls[id].entry.metadata
            configured == IF Has(loggingCommon, "labels")
                          THEN loggingCommon.labels ELSE Empty
            ofRecord == IF Has(logObject, "labels") THEN logObject.labels ELSE Empty
            keys == DOMAIN configured \cup DOMAIN ofRecord
        IN  /\ Has(metadata, "labels") <=> keys # {}
            /\ Has(metadata, "labels") =>
                  /\ DOMAIN metadata.labels = keys
                  /\ \A k \in keys :
                        metadata.labels[k] =
                            IF k \in DOMAIN ofRecord THEN ofRecord[k]
                            ELSE configured[k]

\* a record with labels env and team was written under the configured labels
\* env and app: env is the record's
C16_Witness ==
    \E id \in WriteLogCalls :
        /\ calls[id].pc = "done"
        /\ Has(loggingCommon, "labels")
        /\ DOMAIN loggingCommon.labels = {"env", "app"}
        /\ Has(calls[id].logObject, "labels")
        /\ DOMAIN calls[id].logObject.labels = {"env", "team"}
        /\ calls[id].entry.metadata.labels =
              [env |-> "record", team |-> "t", app |-> "a"]

HeaderOf(req) == IF Has(req, TRACE_HEADER) THEN req[TRACE_HEADER] ELSE <<>>

ConfiguredProjectId ==
    IF Has(middleware.options, "projectId") THEN middleware.options.projectId
    ELSE ""

\* C17: every request the middleware has handled has a span id: the span
\* part of the header when a project id is configured and the header parses
\* with one, a generated one otherwise; and whenever a project id is
\* configured it has a trace 'projects/{projectId}/traces/{id}': with the
\* header's trace id when the header parses, with a generated one when the
\* header is absent, empty or malformed.
C17_ContextAcquisition ==
    \A id \in DOMAIN requests :
        LET request == requests[id]
            h == HeaderOf(request.req)
        IN  \A parts \in {IF ConfiguredProjectId # ""
                          THEN WellFormedParts(h, FlagMarkers) ELSE {}} :
                /\ Has(request, "spanId")
                /\ request.spanId # ""
                /\ \A ab \in parts :
                      ab[2] > ab[1] =>
                          request.spanId = Join(SubSeq(h, ab[1] + 2, ab[2]))
                /\ (\A ab \in parts : ab[2] = ab[1]) =>
                      \E generated \in GeneratedIds :
                          request.spanId = generated.spanId
                /\ ConfiguredProjectId # "" =>
                      /\ Has(request, "trace")
                      /\ \A ab \in parts :
                            request.trace =
                                "projects/" \o ConfiguredProjectId \o "/traces/"
                                \o Join(SubSeq(h, 1, ab[1]))
                      /\ parts = {} =>
                            \E generated \in GeneratedIds :
                                request.trace =
                                    "projects/" \o ConfiguredProjectId
                                    \o "/traces/" \o generated.traceId

\* under the project proj, a request with the header not-hex!! was given a
\* generated trace and span id, and one with a full header those of it
C17_Witness ==
    /\ middleware # NULL
    /\ ConfiguredProjectId = "proj"
    /\ \E id \in DOMAIN requests :
          /\ HeaderOf(requests[id].req) = NotHex
          /\ requests[id].trace = "projects/proj/traces/1b2a3f4e"
          /\ requests[id].spanId = "8472"
    /\ \E id \in DOMAIN requests :
          /\ Len(HeaderOf(requests[id].req)) = 11
          /\ requests[id].trace = "projects/proj/traces/0Af9"
          /\ requests[id].spanId = "42"

ManagedMarkers == {"GAE_SERVICE", "K_SERVICE", "FUNCTION_NAME", "K_REVISION"}

ManagedEnvironment ==
    \E k \in ManagedMarkers : Has(process_env, k) /\ process_env[k] # ""

NoRequestLogAttempted ==
    /\ Len(writes) = 0
    /\ DOMAIN calls = {}
    /\ \A id \in DOMAIN requests : ~requests[id].hook

\* C18, as claimed: whenever one of the four managed-environment markers is
\* set non-empty, the middleware attempts no request-summary write, under
\* every middleware configuration.
C18_ManagedSuppression == ManagedEnvironment => NoRequestLogAttempted

\* C18, amended: whenever one of the four managed-environment markers is set
\* non-empty and the option skipParentRequestEntry is not set to false, the
\* middleware attempts no request-summary write for any request.
C18_ManagedSuppressionByDefault ==
    (/\ middleware # NULL
     /\ ManagedEnvironment
     /\ ~(/\ Has(middleware.options, "skipParentRequestEntry")
          /\ middleware.options.skipParentRequestEntry = FALSE)) =>
        NoRequestLogAttempted

\* with K_REVISION set and no skipParentRequestEntry option, a request that
\* was given a trace has finished and nothing was written
C18_Witness ==
    /\ middleware # NULL
    /\ Has(process_env, "K_REVISION")
    /\ ~Has(middleware.options, "skipParentRequestEntry")
    /\ \E id \in DOMAIN requests :
          /\ Has(requests[id], "trace")
          /\ requests[id].res.finished
    /\ Len(writes) = 0

\* C19: the middleware calls next() exactly once for every request, before
\* any request-summary write; a request-summary write that fails is reported
\* once on stderr and is no unhandled rejection, and one that succeeds is not
\* reported.
C19_RequestLogFailureIsolation ==
    /\ \A n \in DOMAIN writes : writes[n].id \in DOMAIN requests
    /\ \A id \in DOMAIN requests :
          /\ requests[id].nextCalls = 1
          /\ ~requests[id].unhandledRejection
          /\ Cardinality(WritesOf(id)) <= 1
          /\ \A n \in WritesOf(id) :
                /\ (writes[n].status = "rejected" /\ id \notin DOMAIN calls) =>
                       Cardinality(ReportsOf(id)) = 1
                /\ writes[n].status # "rejected" => ReportsOf(id) = {}
          /\ WritesOf(id) = {} => ReportsOf(id) = {}

\* the request-summary writes of two requests were rejected and reported
C19_Witness ==
    /\ middleware # NULL
    /\ DOMAIN calls = {}
    /\ Len(writes) = 2
    /\ \A n \in DOMAIN writes : writes[n].status = "rejected"
    /\ Len(stderr) = 2
    /\ \A id \in DOMAIN requests :
          requests[id].nextCalls = 1 /\ ~requests[id].unhandledRejection

\* C20: every entry writeRequestLog builds has severity INFO, an empty body
\* and an envelope with the caller's httpRequest block, the given trace, span
\* id and sampling flag and the configured labels; whenever latencyMs is
\* given, 0 included, the latency of the httpRequest block is
\* {seconds: floor(latencyMs / 1000), nanos: (latencyMs mod 1000) * 1000000}.
C20_RequestLogEntryShape ==
    \A id \in {c \in DOMAIN calls : calls[c].op = "writeRequestLog"} :
        LET args == calls[id].args
            metadata == calls[id].entry.metadata
        IN  /\ metadata.severity = "INFO"
            /\ DOMAIN calls[id].entry.data = {}
            /\ \A k \in DOMAIN args.httpRequest \ {"latency"} :
                  /\ Has(metadata.httpRequest, k)
                  /\ metadata.httpRequest[k] = args.httpRequest[k]
            /\ \A k \in {"trace", "spanId", "traceSampled"} :
                  /\ Has(metadata, k) <=> Has(args, k)
                  /\ Has(args, k) => metadata[k] = args[k]
            /\ Has(metadata, "labels") <=> Has(loggingCommon, "labels")
            /\ Has(loggingCommon, "labels") =>
                  metadata.labels = loggingCommon.labels
            /\ Has(args, "latencyMs") =>
                  /\ Has(metadata.httpRequest, "latency")
                  /\ metadata.httpRequest.latency =
                        [seconds |-> args.latencyMs \div 1000,
                         nanos |-> (args.latencyMs % 1000) * 1000000]

\* the getProjectId calls that have returned an id
ReturnedProjectIdCalls ==
    {n \in DOMAIN projectIdCalls : projectIdCalls[n].result = "returned"}

DiscoveryInvocations == loggingCommon.logging.auth.getProjectIdCalls

C22_ResourceAssociated ==
    Has(engineOptions, "resource") =>
        \A id \in DOMAIN calls :
            \/ /\ Has(loggingCommon.cloudLog, "resource")
               /\ loggingCommon.cloudLog.resource = engineOptions.resource
            \/ /\ Has(calls[id].entry.metadata, "resource")
               /\ calls[id].entry.metadata.resource = engineOptions.resource

\* the least element of a non-empty set of integers
Least(S) == CHOOSE i \in S : \A j \in S : i <= j

\* the characters of a trace context between its first '/' and the first
\* '/' or ';' after it (or its end); NULL when it has no '/'
SecondSegment(c) ==
    LET slashes == {i \in 1 .. Len(c) : c[i] = "/"}
    IN  IF slashes = {} THEN NULL
        ELSE LET first == Least(slashes)
                 stop == Least({i \in first + 1 .. Len(c) : c[i] \in {"/", ";"}}
                               \cup {Len(c) + 1})
             IN  [chars |-> SubSeq(c, first + 1, stop - 1)]

\* C23: currentSpan returns null when there is no agent, no active root
\* span, or the trace context is empty, has no '/', or has a second segment
\* that is empty once its ';' suffix is removed; otherwise it returns the
\* second '/'-separated segment up to its first ';'.  Every call reads the
\* agent as it is at that call: the result never depends on an earlier call
C23_CurrentSpan ==
    spanCall # NULL =>
        LET agent == spanCall.agent
            segment ==
                IF Has(agent, "installed") /\ Has(agent, "rootSpan")
                THEN SecondSegment(agent.rootSpan.traceContext)
                ELSE NULL
        IN  IF segment = NULL \/ segment = [chars |-> <<>>]
            THEN spanCall.result = NULL
            ELSE spanCall.result = [value |-> Join(segment.chars)]

\* a second call, after the agent moved to the root span 'T/S;o=1' from a
\* state without a span, returns 'S' where the first returned null
C23_Witness ==
    /\ spanCall # NULL
    /\ spanCall.n = 2
    /\ spanCall.previous = NULL
    /\ Has(spanCall.agent, "rootSpan")
    /\ spanCall.agent.rootSpan.traceContext = <<"T", "/", "S", ";", "o", "=", "1">>
    /\ spanCall.result = [value |-> "S"]

\* the trace keys an entry's envelope or a logger's bindings carry
TraceTriple(trace, spanId, traceSampled) ==
    [trace |-> trace, spanId |-> spanId, traceSampled |-> traceSampled]

BoundTriple(id) ==
    LET bindings == requests[id].log.bindings
    IN  TraceTriple(bindings[LOGGING_TRACE_KEY], bindings[LOGGING_SPAN_KEY],
                    bindings[LOGGING_SAMPLED_KEY])

\* C24: under every interleaving of requests, the request-summary entry
\* written for a request carries exactly the trace, span id and sampling
\* flag bound to that request's child logger; a request for which no trace
\* was established gets the unbound parent logger and no request-summary
\* entry
C24_RequestContextIsolation ==
    /\ \A id \in DOMAIN calls :
          /\ id \in DOMAIN requests
          /\ requests[id].log.logger = "child"
          /\ Pick(calls[id].entry.metadata, {"trace", "spanId", "traceSampled"})
                = BoundTriple(id)
    /\ \A id \in DOMAIN requests :
          ~Has(requests[id], "trace") =>
              /\ requests[id].log = [logger |-> "parent", bindings |-> Empty]
              /\ ~requests[id].hook
              /\ WritesOf(id) = {}

\* two requests with different contexts are in flight and the summary of the
\* first is being written after the second was admitted
C24_Witness ==
    /\ DOMAIN requests = {1, 2}
    /\ Has(requests[1], "trace") /\ Has(requests[2], "trace")
    /\ requests[1].spanId # requests[2].spanId
    /\ requests[1].trace # requests[2].trace
    /\ 1 \in DOMAIN calls
    /\ ~requests[2].res.finished
    /\ calls[1].entry.metadata.spanId = requests[1].spanId

\* C25: the completion hook of a request is registered exactly when the
\* middleware does not skip the request-summary entry (a flag fixed when the
\* middleware is made, from the option or else the environment) and a trace
\* was established for the request; writeRequestLog is called at most once
\* for a request, and only for a registered hook whose response has finished
C25_CompletionHook ==
    middleware # NULL =>
        /\ middleware.skipParentRequestEntry =
              (IF Has(middleware.options, "skipParentRequestEntry")
               THEN middleware.options.skipParentRequestEntry
               ELSE ManagedEnvironment)
        /\ \A id \in DOMAIN requests :
              /\ requests[id].hook <=>
                    (~middleware.skipParentRequestEntry /\ Has(requests[id], "trace"))
              /\ Cardinality(WritesOf(id)) <= 1
              /\ WritesOf(id) # {} =>
                    requests[id].hook /\ requests[id].res.finished
              /\ (requests[id].hook /\ requests[id].res.finished) =>
                    Cardinality(WritesOf(id)) = 1
        /\ \A n \in DOMAIN writes : writes[n].id \in DOMAIN requests

\* one request with a registered hook has finished and its summary was
\* written once, while a second with a registered hook is still open and
\* nothing was written for it
C25_Witness ==
    /\ middleware # NULL
    /\ ~middleware.skipParentRequestEntry
    /\ DOMAIN requests = {1, 2}
    /\ requests[1].hook /\ requests[1].res.finished
    /\ Cardinality(WritesOf(1)) = 1
    /\ requests[2].hook /\ ~requests[2].res.finished
    /\ WritesOf(2) = {}

\* the sink the constructor chooses for the options it was given
ChosenSink ==
    IF Has(engineOptions, "redirectToStdout") /\ engineOptions.redirectToStdout
    THEN "LogSync" ELSE "Log"

\* C26: every writeLog and writeRequestLog call issues exactly one write, to
\* the sink chosen at construction (the stdout sink exactly when the
\* redirect flag is set, the remote sink otherwise); the kind of the sink
\* never changes; a write that was rejected is not issued again
C26_OneWriteToChosenSink ==
    /\ loggingCommon.cloudLog.kind = ChosenSink
    /\ loggingCommon.redirectToStdout = (ChosenSink = "LogSync")
    /\ \A id \in 1 .. appCalls : Cardinality(WritesOf(id)) = 1
    /\ \A n \in DOMAIN writes :
          /\ writes[n].id \in 1 .. appCalls
          /\ writes[n].sink = ChosenSink
          /\ writes[n].status = "inflight" => writes[n].sink = "Log"

\* a write to the stdout sink threw, the call has ended, and the sink was
\* written to once
C26_Witness ==
    /\ appCalls = 1
    /\ DOMAIN calls = {}
    /\ ChosenSink = "LogSync"
    /\ Len(writes) = 1
    /\ writes[1].sink = "LogSync"
    /\ writes[1].status = "rejected"

\* the variant of buildMetadata whose reserved set omits pid and hostname:
\* the two fields are copied with the user fields and never re-added
MetadataNeverExcludingProcess(logObject) ==
    LET copied == [k \in DOMAIN logObject \ (excludeKeys \ {"pid", "hostname"}) |->
                      logObject[k]]
    IN  IF Has(logObject, "err")
        THEN Assign(copied, "error", Pick(logObject.err, {"type", "message"}))
        ELSE copied

ConfigurationOf(this) ==
    Pick(this, {"cloudLog", "redirectToStdout", "useMessageField", "prefix",
                "labels", "serviceContext", "maxEntrySize", "defaultCallback"})

\* C28: no step of writeLog, writeRequestLog or getProjectId changes the
\* sink, the delivery mode, the message-field toggle, the prefix, the labels,
\* the service context, the maximum entry size or the default callback; the
\* project id changes only inside getProjectId, from unset (absent or empty)
\* to the value the discovery resolved to
C28_ConfigurationFrame ==
    [][/\ ConfigurationOf(loggingCommon') = ConfigurationOf(loggingCommon)
       /\ Pick(loggingCommon', {"projectId"}) # Pick(loggingCommon, {"projectId"}) =>
             /\ ~TruthyStr(loggingCommon, "projectId")
             /\ Has(loggingCommon', "projectId")
             /\ loggingCommon'.projectId = ProviderProjectId
             /\ \E n \in DOMAIN projectIdCalls :
                   /\ projectIdCalls[n].pc = "discovering"
                   /\ projectIdCalls'[n].result = "returned"]_vars

\* an engine configured with every option but the project id has written an
\* entry and discovered its project id, and a later call returned it
C28_Witness ==
    /\ Has(engineOptions, "labels")
    /\ ~Has(engineOptions, "projectId")
    /\ Len(writes) = 1
    /\ Len(projectIdCalls) = 2
    /\ \A n \in DOMAIN projectIdCalls : projectIdCalls[n].result = "returned"
    /\ DiscoveryInvocations = 1
    /\ Has(loggingCommon, "projectId")
    /\ loggingCommon.projectId = ProviderProjectId
    /\ ConfigurationOf(loggingCommon) = ConfigurationOf(LoggingCommon(engineOptions))

\* the positions at which a call invoked one of its callbacks
InvocationsOf(call, who) ==
    {n \in DOMAIN call.events :
        call.events[n].ev = "invoke" /\ call.events[n].who = who}

\* the callbacks a writeLog call was supplied with
SuppliedCallbacks(call) ==
    (IF Has(call, "callback") THEN {"callback"} ELSE {})
    \cup (IF Has(loggingCommon, "defaultCallback") THEN {"defaultCallback"} ELSE {})

\* C29: for every writeLog call and every behaviour of the callbacks,
\* throwing included, each supplied callback (the per-call one and the
\* configured default) is invoked exactly once, with null exactly when the
\* write succeeded and with the error exactly when it failed
C29_CallbackExactlyOnce ==
    \A id \in DoneCalls("writeLog") :
        LET call == calls[id]
        IN  \A who \in SuppliedCallbacks(call) :
                /\ Cardinality(InvocationsOf(call, who)) = 1
                /\ \A n \in InvocationsOf(call, who) :
                      call.events[n].arg =
                          (IF settledArg(call) = NULL THEN NULL
                           ELSE toError(settledArg(call)))

\* the keys of the envelope writeLog builds
EnvelopeKeys ==
    {"severity", "timestamp", "labels", "trace", "spanId", "traceSampled",
     "httpRequest"}

\* C30: the formatted message (the record's msg with prefix and stack text)
\* is written to the payload field 'message' and nowhere else, exactly when
\* the message-field mode is enabled and the formatted message is non-empty;
\* otherwise the payload holds under 'message' only a user field of that
\* name the record itself carried.  The payload's 'error' object of a record
\* with an error carries only the error's type and message.  Every other
\* payload field is a user field, pid or hostname of the record with the
\* record's value, or the error-reporting augmentation, and the envelope has
\* its fixed keys only: with the mode disabled neither the record's msg nor
\* the stack is anywhere in the entry
C30_MessagePlacement ==
    \A id \in WriteLogCalls :
        LET logObject == calls[id].logObject
            data == calls[id].entry.data
            message == formatMessage(loggingCommon, logObject)
        IN  /\ IF loggingCommon.useMessageField /\ message # ""
               THEN Has(data, "message") /\ data.message = message
               ELSE /\ Has(data, "message") <=> Has(logObject, "message")
                    /\ Has(data, "message") => data.message = logObject.message
            /\ Has(logObject, "err") =>
                  /\ Has(data, "error")
                  /\ DOMAIN data.error \subseteq {"type", "message"}
                  /\ data.error = Pick(logObject.err, {"type", "message"})
            /\ DOMAIN data \cap {"msg", "err", "stack"} = {}
            /\ \A k \in DOMAIN data \ {"message", "error"} :
                  \/ k \in ErrorReportingKeys
                  \/ /\ k \in (DOMAIN logObject \ ReservedKeys) \cup {"pid", "hostname"}
                     /\ Has(logObject, k)
                     /\ data[k] = logObject[k]
            /\ DOMAIN calls[id].entry.metadata \subseteq EnvelopeKeys

\* with the mode disabled, a record with a message and an error stack was
\* written: the payload has the error's type and message and no message
C30_Witness ==
    \E id \in WriteLogCalls :
        /\ ~loggingCommon.useMessageField
        /\ Has(calls[id].logObject, "msg")
        /\ calls[id].logObject.msg = "m"
        /\ errStack(calls[id].logObject)
        /\ ~Has(calls[id].logObject, "message")
        /\ ~Has(calls[id].entry.data, "message")
        /\ calls[id].entry.data.error = [type |-> "Error", message |-> "boom"]
        /\ calls[id].pc = "done"

====
